---- MODULE Spec2Model ----
(***************************************************************************)
(* Model of the blackjack decision engine (src/src/lib/blackjack.ts, the   *)
(* current definitions at lines 1087-1636), of its worker                  *)
(* (src/src/lib/decisionWorker.ts) and of the request/response dispatch of *)
(* the App component (src/src/App.tsx).                                    *)
(*                                                                         *)
(* Numbers.  A JavaScript number that holds a probability or an EV is      *)
(* modelled as an exact rational <<n, d>> (d > 0, lowest terms), and       *)
(* Number.NEGATIVE_INFINITY as NegInf.  The IEEE-754 rounding of the       *)
(* dealer distribution is modelled separately, in the section "Binary64".  *)
(* Arrays are 1-based here and 0-based in the source.                      *)
(***************************************************************************)
EXTENDS Integers, Sequences, FiniteSets, TLC

VARIABLES
    \* one call of calculateDecision
    input,      \* DecisionInput handed to calculateDecision
    phase,      \* "input" before the call, "returned" after it
    result,     \* DecisionResult it returned (<<>> before the call)
    \* request/response dispatch of App.tsx and decisionWorker.ts
    decisionInput,              \* the memoized decisionInput of the component
    decision,                   \* useState decision
    isDecisionPending,          \* useState isDecisionPending
    latestDecisionRequestId,    \* useRef latestDecisionRequestId.current
    nextDecisionRequestId,      \* module variable nextDecisionRequestId
    pendingDecisionRequests,    \* Map id -> resolver; a resolver is the requestId
                                \* of the effect run whose .then awaits it
    workerInbox,                \* messages posted to the worker, in order
    workerOutbox,               \* responses posted by the worker, in order
    reactions,                  \* resolved promises whose .then callback has not run
    delivered,                  \* history: the .then callbacks run, and whether each applied
    \* a shoe under removeCard, drawRandomCard and branch decrements
    shoeCounts, \* number[] of counts per rank
    shoeDecks,  \* decks the shoe was built from
    cardsRemoved, \* history: number of cards successfully removed
    lastOp,     \* history: the last operation, its rank and whether it succeeded
    shoeOps,    \* history: number of operations done
    \* one call of computeDealerDistribution
    dealerIn,   \* its arguments
    distribution, \* the DealerDistribution it returned (<<>> before the call)
    \* one call of a function of blackjack.ts on its own
    call,       \* the function called and its arguments
    ret,        \* what it returned (<<>> before the call)
    \* a sequence of calls of calculateDecision
    calls,      \* history: the input and the result of each call so far
    baseCountsHeap, \* the baseCounts array the last call allocated, as it left it
    handMemoHeap, \* the handMemo Map the last call allocated, as it left it
    \* the hands reducer of App.tsx
    hands,      \* HandsState: the state useReducer(handsReducer, ...) holds
    \* one branch of the dealer's play
    dealerBranch, \* the dealer's cards, the shoe, the rule and how the branch ended
    \* the trial loop of simulateSplitAction
    sim         \* its locals: trials, i, completedTrials, wins, meanProfit, m2

decisionVars == <<input, phase, result>>
dispatchVars == <<decisionInput, decision, isDecisionPending, latestDecisionRequestId,
                  nextDecisionRequestId, pendingDecisionRequests, workerInbox, workerOutbox,
                  reactions, delivered>>
shoeVars == <<shoeCounts, shoeDecks, cardsRemoved, lastOp, shoeOps>>
dealerVars == <<dealerIn, distribution>>
callVars == <<call, ret>>
callsVars == <<calls, baseCountsHeap, handMemoHeap>>
handsVars == <<hands>>
branchVars == <<dealerBranch>>
simVars == <<sim>>
vars == <<decisionVars, dispatchVars, shoeVars, dealerVars, callVars, callsVars,
          handsVars, branchVars, simVars>>

----------------------------------------------------------------------------
(* Rational arithmetic standing for the source's number arithmetic.        *)

RECURSIVE GCD(_, _)
GCD(a, b) == IF b = 0 THEN a ELSE GCD(b, a % b)

Abs(x) == IF x < 0 THEN -x ELSE x

\* The rational n/d in lowest terms with a positive denominator, g being
\* the greatest common divisor of n and d.
QOver(n, d, g) ==
    IF d < 0 THEN <<(-n) \div g, (-d) \div g>> ELSE <<n \div g, d \div g>>

Q(n, d) == QOver(n, d, GCD(Abs(n), Abs(d)))

QInt(n) == <<n, 1>>
Zero == <<0, 1>>
One == <<1, 1>>
NegInf == <<-1, 0>>

IsNegInf(a) == a[2] = 0

QAdd(a, b) == Q(a[1] * b[2] + b[1] * a[2], a[2] * b[2])
QNeg(a) == <<-a[1], a[2]>>
QMul(a, b) == Q(a[1] * b[1], a[2] * b[2])
QDivInt(a, b) == Q(a, b)
QDiv(a, b) == Q(a[1] * b[2], a[2] * b[1])

\* a + b, a - b, a * b, a > b, a <= b on numbers that may be -Infinity
\* (-Infinity never meets +Infinity or NaN in the code modelled).
NumAdd(a, b) == IF IsNegInf(a) \/ IsNegInf(b) THEN NegInf ELSE QAdd(a, b)
NumSub(a, b) == IF IsNegInf(a) THEN NegInf ELSE QAdd(a, QNeg(b))
NumMul(a, b) == QMul(a, b)
NumGt(a, b) ==
    IF IsNegInf(a) THEN FALSE
    ELSE IF IsNegInf(b) THEN TRUE
    ELSE a[1] * b[2] > b[1] * a[2]
NumGe(a, b) == ~NumGt(b, a)
NumMin(a, b) == IF NumGt(a, b) THEN b ELSE a
Floor(a) == a[1] \div a[2]

----------------------------------------------------------------------------
(* Constants and helpers of blackjack.ts.                                  *)

RANKS == <<"A", "2", "3", "4", "5", "6", "7", "8", "9", "10", "J", "Q", "K">>
RankSet == {RANKS[i] : i \in 1..Len(RANKS)}
RankIdx == 1..Len(RANKS)

RANK_TO_INDEX(rank) == CHOOSE i \in RankIdx : RANKS[i] = rank

TEN_RANKS == {"10", "J", "Q", "K"}
DEALER_TOTALS == <<17, 18, 19, 20, 21>>

\* A faulty tag table, in which the ace is neutral.
HiLoTagsAceNeutral(rank) ==
    IF rank \in TEN_RANKS THEN -1
    ELSE IF rank \in {"2", "3", "4", "5", "6"} THEN 1
    ELSE 0

HI_LO_TAGS(rank) ==
    IF rank \in {"A"} \cup TEN_RANKS THEN -1
    ELSE IF rank \in {"2", "3", "4", "5", "6"} THEN 1
    ELSE 0

\* A faulty weight: no risk aversion.
RiskNeutralWeight == Zero

RISK_AVERSION_WEIGHT == <<1, 10>>

rankValue(rank) ==
    IF rank = "A" THEN 11
    ELSE IF rank \in TEN_RANKS THEN 10
    ELSE CHOOSE v \in 2..9 : RANKS[v] = rank

\* RANKS.map(() => 4 * decks), as a tuple.
RECURSIVE Repeat(_, _)
Repeat(x, n) == IF n <= 0 THEN <<>> ELSE <<x>> \o Repeat(x, n - 1)

toShoeCounts(decks) == Repeat(4 * decks, Len(RANKS))

\* rules.x ?? dflt, an optional field being <<>> (undefined) or <<value>>.
Nullish(opt, dflt) == IF opt = <<>> THEN dflt ELSE opt[1]

MaxInt(a, b) == IF a > b THEN a ELSE b
MinInt(a, b) == IF a < b THEN a ELSE b

normalizeRules(rules) ==
    [ decks            |-> MaxInt(1, Floor(rules.decks)),
      dealerHitsSoft17 |-> rules.dealerHitsSoft17,
      doubleAfterSplit |-> rules.doubleAfterSplit,
      blackjackPayout  |-> rules.blackjackPayout,
      lateSurrender    |-> Nullish(rules.lateSurrender, TRUE),
      maxSplitHands    |-> MinInt(4, MaxInt(2, Floor(Nullish(rules.maxSplitHands, QInt(2))))),
      resplitAces      |-> Nullish(rules.resplitAces, FALSE),
      hitSplitAces     |-> Nullish(rules.hitSplitAces, FALSE),
      doubleAnyTwo     |-> Nullish(rules.doubleAnyTwo, TRUE) ]

\* A faulty removeCard, without the guard on the count.
removeCardUnchecked(counts, rank) ==
    [ok |-> TRUE, counts |-> [counts EXCEPT ![RANK_TO_INDEX(rank)] = @ - 1]]

\* removeCard mutates counts and returns a boolean: both are returned here.
removeCard(counts, rank) ==
    LET index == RANK_TO_INDEX(rank)
    IN  IF counts[index] <= 0
        THEN [ok |-> FALSE, counts |-> counts]
        ELSE [ok |-> TRUE, counts |-> [counts EXCEPT ![index] = @ - 1]]

RECURSIVE SumFrom(_, _)
SumFrom(counts, i) ==
    IF i > Len(counts) THEN 0 ELSE counts[i] + SumFrom(counts, i + 1)

countTotalCards(counts) == SumFrom(counts, 1)

\* A faulty draw, which also stops on a rank when pick reaches 0.
drawRandomCardInclusive(counts, pick) ==
    LET index == CHOOSE i \in 1..Len(counts) :
                     /\ pick - SumFrom(SubSeq(counts, 1, i), 1) <= 0
                     /\ \A j \in 1..(i - 1) : pick - SumFrom(SubSeq(counts, 1, j), 1) > 0
    IN  IF countTotalCards(counts) <= 0 THEN [rank |-> "null", counts |-> counts]
        ELSE [rank |-> RANKS[index], counts |-> [counts EXCEPT ![index] = @ - 1]]

\* The for-loop of drawRandomCard from position index, pick being what is
\* left of the drawn number.
RECURSIVE DrawLoop(_, _, _)
DrawLoop(counts, index, pick) ==
    IF index > Len(counts) THEN [rank |-> "null", counts |-> counts]
    ELSE IF pick - counts[index] < 0
    THEN [rank |-> RANKS[index], counts |-> [counts EXCEPT ![index] = @ - 1]]
    ELSE DrawLoop(counts, index + 1, pick - counts[index])

\* drawRandomCard(counts) when Math.floor(Math.random() * total) is pick; it
\* mutates counts and returns a rank or null: both are returned here.
drawRandomCard(counts, pick) ==
    IF countTotalCards(counts) <= 0 THEN [rank |-> "null", counts |-> counts]
    ELSE DrawLoop(counts, 1, pick)

\* The rank indices a loop "for (ri...) { if (counts[ri] <= 0) continue; ... }"
\* runs its body for, in loop order.
RankIndices == <<1, 2, 3, 4, 5, 6, 7, 8, 9, 10, 11, 12, 13>>
AvailableRanks(counts) == SelectSeq(RankIndices, LAMBDA ri : counts[ri] > 0)

RECURSIVE RawTotal(_, _)
RawTotal(cards, i) ==
    IF i > Len(cards) THEN 0 ELSE rankValue(cards[i]) + RawTotal(cards, i + 1)

AceCount(cards) == Cardinality({i \in 1..Len(cards) : cards[i] = "A"})

\* A faulty ReduceAces, which counts every ace as 1 as soon as the total
\* exceeds 21.
ReduceAllAces(total, aces) ==
    IF total > 21 /\ aces > 0
    THEN [total |-> total - 10 * aces, soft |-> FALSE]
    ELSE [total |-> total, soft |-> aces > 0]

\* while (total > 21 && aces > 0) { total -= 10; aces -= 1 }
RECURSIVE ReduceAces(_, _)
ReduceAces(total, aces) ==
    IF total > 21 /\ aces > 0
    THEN ReduceAces(total - 10, aces - 1)
    ELSE [total |-> total, soft |-> aces > 0]

handValue(cards) == ReduceAces(RawTotal(cards, 1), AceCount(cards))

isBlackjack(cards) ==
    IF Len(cards) # 2 THEN FALSE
    ELSE /\ \E i \in 1..2 : cards[i] = "A"
         /\ \E i \in 1..2 : cards[i] \in TEN_RANKS

\* `${cards.length}:${total}:${soft ? 1 : 0}:${blackjackState}` as a tuple.
HandStateKeyOf(cards, v) == <<Len(cards), v.total, v.soft, Len(cards) = 2 /\ isBlackjack(cards)>>

handStateKey(cards) == HandStateKeyOf(cards, handValue(cards))

----------------------------------------------------------------------------
(* Binary64.  The IEEE-754 double arithmetic of a JavaScript number, for   *)
(* the non-negative values of the dealer distribution: the quotient of two *)
(* counts, the product and the sum, each rounded to nearest, ties to even. *)
(* A natural number is a tuple of limbs in base 2^13, least significant    *)
(* first, of fixed length; a double is <<m, e>> standing for m * 2^e with  *)
(* m a natural of exactly 53 bits, or DZero.  Subnormals and overflow are  *)
(* out of reach of a probability built from counts of a few hundred cards. *)

BZero == <<0, 0, 0, 0, 0, 0, 0, 0, 0, 0>>
NLimbs == Len(BZero)
Limb == 2^13

BInt(n) == [BZero EXCEPT ![1] = n]
BLimb(n, i) == IF i >= 1 /\ i <= NLimbs THEN n[i] ELSE 0

\* The tuple of a function on 1..NLimbs.
BTuple(f) == SubSeq(f, 1, NLimbs)

\* Limbs of the number whose base-2^13 digits are cs[i..] plus carry, where
\* the digits may exceed the base.
RECURSIVE BCarry(_, _, _)
BCarry(cs, i, carry) ==
    IF i > NLimbs THEN <<>>
    ELSE <<(cs[i] + carry) % Limb>> \o BCarry(cs, i + 1, (cs[i] + carry) \div Limb)

BAdd(a, b) == BCarry([j \in 1..NLimbs |-> a[j] + b[j]], 1, 0)

\* a * b for a and b below 2^65 (five limbs).
BMul(a, b) ==
    BCarry([k \in 1..NLimbs |->
               a[1] * BLimb(b, k) + a[2] * BLimb(b, k - 1) + a[3] * BLimb(b, k - 2)
               + a[4] * BLimb(b, k - 3) + a[5] * BLimb(b, k - 4)], 1, 0)

\* floor(n / 2^s) and n * 2^s.
BShr(n, s) ==
    LET ls == s \div 13
        bs == s % 13
    IN  BTuple([j \in 1..NLimbs |->
                   (BLimb(n, j + ls) \div 2^bs) + (BLimb(n, j + ls + 1) % 2^bs) * 2^(13 - bs)])

BShl(n, s) ==
    LET ls == s \div 13
        bs == s % 13
    IN  BTuple([j \in 1..NLimbs |->
                   ((BLimb(n, j - ls) * 2^bs) % Limb) + (BLimb(n, j - ls - 1) \div 2^(13 - bs))])

\* Index of the most significant limb where a and b differ (0 if none).
BTopDiff(a, b) ==
    IF \A i \in 1..NLimbs : a[i] = b[i] THEN 0
    ELSE CHOOSE i \in 1..NLimbs : a[i] # b[i] /\ \A j \in (i + 1)..NLimbs : a[j] = b[j]

BLtAt(a, b, t) == t # 0 /\ a[t] < b[t]
BLt(a, b) == BLtAt(a, b, BTopDiff(a, b))
BLe(a, b) == ~BLt(b, a)

\* Number of bits of n, t being its most significant non-zero limb, and
\* bit i of n (bit 0 is the least significant).
BBitLenAt(n, t) ==
    IF t = 0 THEN 0
    ELSE 13 * (t - 1) + (CHOOSE k \in 1..13 : 2^(k - 1) <= n[t] /\ n[t] < 2^k)

BBitLen(n) == BBitLenAt(n, BTopDiff(n, BZero))

BBit(n, i) == (n[(i \div 13) + 1] \div 2^(i % 13)) % 2

\* Quotient and remainder of n by t < 2^13, from limb i down with the
\* remainder r of the limbs above.
RECURSIVE BDivSmall(_, _, _, _)
BDivSmall(n, t, i, r) ==
    IF i = 0 THEN [q |-> <<>>, r |-> r]
    ELSE LET rest == BDivSmall(n, t, i - 1, (r * Limb + n[i]) % t)
         IN  [q |-> Append(rest.q, (r * Limb + n[i]) \div t), r |-> rest.r]

DZero == <<BZero, 0>>
DOne == <<[BZero EXCEPT ![5] = 1], -52>>

\* <<m, e>> with m brought back to 53 bits if the rounding carried out of them.
DNormal(m, e) == IF BBitLen(m) > 53 THEN <<BShr(m, 1), e + 1>> ELSE <<m, e>>

\* Whether n, cut of its s lowest bits to q, is rounded up: the first bit
\* cut is 1, and a lower bit is 1 or q is odd.
DRoundsUp(n, s, q) ==
    BBit(n, s - 1) = 1 /\ (BShl(BShr(n, s - 1), s - 1) # n \/ BBit(q, 0) = 1)

DRoundCut(n, e, s, q) ==
    DNormal(IF DRoundsUp(n, s, q) THEN BAdd(q, BInt(1)) ELSE q, e + s)

DRoundLen(n, e, len) ==
    IF len = 0 THEN DZero
    ELSE IF len <= 53 THEN <<BShl(n, 53 - len), e - (53 - len)>>
    ELSE DRoundCut(n, e, len - 53, BShr(n, len - 53))

\* The double nearest to n * 2^e, ties to even.
DRound(n, e) == DRoundLen(n, e, BBitLen(n))

\* The double of the quotient d.q with remainder d.r of a * 2^78 by b: a
\* sticky bit is appended for a non-zero remainder.
DQuotient(d) == DRound(BAdd(BShl(d.q, 1), BInt(IF d.r = 0 THEN 0 ELSE 1)), -79)

\* a / b for integers 0 <= a, 0 < b < 2^13.
DDivInt(a, b) == DQuotient(BDivSmall(BShl(BInt(a), 78), b, NLimbs, 0))

DMul(x, y) ==
    IF x = DZero \/ y = DZero THEN DZero
    ELSE DRound(BMul(x[1], y[1]), x[2] + y[2])

\* hi + lo for hi[2] >= lo[2].  An addend more than 55 binary places below
\* the other is less than half a unit in its last place and is rounded away.
DAddOrdered(hi, lo) ==
    IF hi[2] - lo[2] > 55 THEN hi
    ELSE DRound(BAdd(BShl(hi[1], hi[2] - lo[2]), lo[1]), lo[2])

DAdd(x, y) ==
    IF x = DZero THEN y
    ELSE IF y = DZero THEN x
    ELSE DAddOrdered(IF x[2] >= y[2] THEN x ELSE y, IF x[2] >= y[2] THEN y ELSE x)

DLe(x, y) ==
    \/ x = DZero
    \/ y # DZero /\ (x[2] < y[2] \/ (x[2] = y[2] /\ BLe(x[1], y[1])))

----------------------------------------------------------------------------
(* Dealer distribution: exact finite-deck probability tree.               *)
(* The memo of dealerDistributionFromKnownCards is keyed by everything the *)
(* result depends on (hand-state key, counts, rule), so it is a pure cache *)
(* and the value is computed here without it.  `ar` selects the number     *)
(* arithmetic: "exact" rationals or "binary64".                            *)

\* The numbers 0 and 1.
ArNum(ar, n) == IF ar = "exact" THEN QInt(n) ELSE IF n = 0 THEN DZero ELSE DOne
ArDiv(ar, a, b) == IF ar = "exact" THEN QDivInt(a, b) ELSE DDivInt(a, b)
ArMul(ar, x, y) == IF ar = "exact" THEN QMul(x, y) ELSE DMul(x, y)
ArAdd(ar, x, y) == IF ar = "exact" THEN QAdd(x, y) ELSE DAdd(x, y)

\* The totals record {17: a, 18: b, 19: c, 20: d, 21: e}.
Totals(a, b, c, d, e) == (17 :> a) @@ (18 :> b) @@ (19 :> c) @@ (20 :> d) @@ (21 :> e)

emptyDealerDistribution(ar) ==
    [ blackjack |-> ArNum(ar, 0),
      bust      |-> ArNum(ar, 0),
      totals    |-> Totals(ArNum(ar, 0), ArNum(ar, 0), ArNum(ar, 0), ArNum(ar, 0),
                           ArNum(ar, 0)) ]

\* A faulty addDealerDistribution, which forgets the branch probability.
addDealerDistributionUnweighted(ar, target, src, factor) ==
    [ blackjack |-> ArAdd(ar, target.blackjack, src.blackjack),
      bust      |-> ArAdd(ar, target.bust, src.bust),
      totals    |->
          LET T(t) == ArAdd(ar, target.totals[t], src.totals[t])
          IN  Totals(T(17), T(18), T(19), T(20), T(21)) ]

\* target.x += src.x * factor, for blackjack, bust and each total.
addDealerDistribution(ar, target, src, factor) ==
    [ blackjack |-> ArAdd(ar, target.blackjack, ArMul(ar, src.blackjack, factor)),
      bust      |-> ArAdd(ar, target.bust, ArMul(ar, src.bust, factor)),
      totals    |->
          LET T(t) == ArAdd(ar, target.totals[t], ArMul(ar, src.totals[t], factor))
          IN  Totals(T(17), T(18), T(19), T(20), T(21)) ]

\* A faulty ClampTotal, which leaves the dealer on 18 at least.
ClampTotalTo18(total) == MinInt(21, MaxInt(18, total))

\* The total an exhausted shoe leaves the dealer on: min(21, max(17, total)).
ClampTotal(total) == MinInt(21, MaxInt(17, total))

RECURSIVE dealerDistributionFromKnownCards(_, _, _, _)
RECURSIVE DealerBranches(_, _, _, _, _, _, _)

\* The for-loop over ranks of dealerDistributionFromKnownCards and of
\* computeDealerDistribution: dist after the turns for the ranks avail[1..k].
DealerBranches(ar, dealerCards, counts, dealerHitsSoft17, totalCards, avail, k) ==
    IF k = 0 THEN emptyDealerDistribution(ar)
    ELSE LET dist == DealerBranches(ar, dealerCards, counts, dealerHitsSoft17, totalCards,
                                    avail, k - 1)
             ri == avail[k]
             prob == ArDiv(ar, counts[ri], totalCards)
             next == [counts EXCEPT ![ri] = @ - 1]
             sub  == dealerDistributionFromKnownCards(
                         ar, Append(dealerCards, RANKS[ri]), next, dealerHitsSoft17)
         IN  addDealerDistribution(ar, dist, sub, prob)

dealerDistributionFromKnownCards(ar, dealerCards, counts, dealerHitsSoft17) ==
    LET value == handValue(dealerCards)
        e == emptyDealerDistribution(ar)
        totalCards == countTotalCards(counts)
    IN  IF Len(dealerCards) = 2 /\ isBlackjack(dealerCards)
        THEN [e EXCEPT !.blackjack = ArNum(ar, 1)]
        ELSE IF value.total > 21
        THEN [e EXCEPT !.bust = ArNum(ar, 1)]
        ELSE IF value.total > 17
                \/ (value.total = 17 /\ (~value.soft \/ ~dealerHitsSoft17))
        THEN [e EXCEPT !.totals[value.total] = ArNum(ar, 1)]
        ELSE IF totalCards <= 0
        THEN [e EXCEPT !.totals[ClampTotal(value.total)] = ArNum(ar, 1)]
        ELSE DealerBranches(ar, dealerCards, counts, dealerHitsSoft17, totalCards,
                            AvailableRanks(counts), Len(AvailableRanks(counts)))

computeDealerDistribution(ar, dealerUpcard, counts, dealerHitsSoft17) ==
    LET totalCards == countTotalCards(counts)
        e == emptyDealerDistribution(ar)
    IN  IF totalCards <= 0
        THEN [e EXCEPT !.totals[17] = ArNum(ar, 1)]
        ELSE DealerBranches(ar, <<dealerUpcard>>, counts, dealerHitsSoft17, totalCards,
                            AvailableRanks(counts), Len(AvailableRanks(counts)))

----------------------------------------------------------------------------
(* Hand resolution.                                                        *)

EvalResult(ev, winProb, lossProb) == [ev |-> ev, winProb |-> winProb, lossProb |-> lossProb]

\* A faulty ResolveTotals, in which a dealer total equal to the player's counts
\* as a loss instead of a push.
RECURSIVE ResolveTotalsTiesLose(_, _, _, _, _)
ResolveTotalsTiesLose(total, stake, dealerDist, i, acc) ==
    IF i > Len(DEALER_TOTALS) THEN acc
    ELSE LET t == DEALER_TOTALS[i]
             p == dealerDist.totals[t]
         IN  IF total > t
             THEN ResolveTotalsTiesLose(total, stake, dealerDist, i + 1,
                      EvalResult(QAdd(acc.ev, QMul(p, QInt(stake))),
                                 QAdd(acc.winProb, p), acc.lossProb))
             ELSE ResolveTotalsTiesLose(total, stake, dealerDist, i + 1,
                      EvalResult(QAdd(acc.ev, QMul(p, QInt(-stake))),
                                 acc.winProb, QAdd(acc.lossProb, p)))

\* The for-loop over DEALER_TOTALS of resolveHandAgainstDealerDistribution.
RECURSIVE ResolveTotals(_, _, _, _, _)
ResolveTotals(total, stake, dealerDist, i, acc) ==
    IF i > Len(DEALER_TOTALS) THEN acc
    ELSE LET t == DEALER_TOTALS[i]
             p == dealerDist.totals[t]
         IN  IF ~NumGt(p, Zero)
             THEN ResolveTotals(total, stake, dealerDist, i + 1, acc)
             ELSE IF total > t
             THEN ResolveTotals(total, stake, dealerDist, i + 1,
                      EvalResult(QAdd(acc.ev, QMul(p, QInt(stake))),
                                 QAdd(acc.winProb, p), acc.lossProb))
             ELSE IF total < t
             THEN ResolveTotals(total, stake, dealerDist, i + 1,
                      EvalResult(QAdd(acc.ev, QMul(p, QInt(-stake))),
                                 acc.winProb, QAdd(acc.lossProb, p)))
             ELSE ResolveTotals(total, stake, dealerDist, i + 1, acc)

\* A faulty resolveHandAgainstDealerDistribution, which pays every two-card 21
\* as a natural whether or not the hand is eligible.
resolveHandAlwaysNatural(playerCards, stake, blackjackPayout, blackjackEligible, dealerDist) ==
    LET value == handValue(playerCards)
    IN  IF value.total > 21 THEN EvalResult(QInt(-stake), Zero, One)
        ELSE IF isBlackjack(playerCards)
        THEN EvalResult(QMul(QMul(QAdd(One, QNeg(dealerDist.blackjack)), QInt(stake)),
                             blackjackPayout),
                        QAdd(One, QNeg(dealerDist.blackjack)), Zero)
        ELSE ResolveTotals(value.total, stake, dealerDist, 1,
                 EvalResult(QMul(QAdd(dealerDist.bust, QNeg(dealerDist.blackjack)),
                                 QInt(stake)),
                            dealerDist.bust, dealerDist.blackjack))

resolveHandAgainstDealerDistribution(playerCards, stake, blackjackPayout, blackjackEligible, dealerDist) ==
    LET value == handValue(playerCards)
    IN  IF value.total > 21 THEN EvalResult(QInt(-stake), Zero, One)
        ELSE IF blackjackEligible /\ isBlackjack(playerCards)
        THEN LET noBj == QAdd(One, QNeg(dealerDist.blackjack))
             IN  EvalResult(
                     QAdd(QMul(dealerDist.blackjack, Zero),
                          QMul(QMul(noBj, QInt(stake)), blackjackPayout)),
                     noBj, Zero)
        ELSE LET afterBj == EvalResult(QMul(dealerDist.blackjack, QInt(-stake)),
                                       Zero, dealerDist.blackjack)
                 afterBust == EvalResult(
                                  QAdd(afterBj.ev, QMul(dealerDist.bust, QInt(stake))),
                                  dealerDist.bust, afterBj.lossProb)
             IN  ResolveTotals(value.total, stake, dealerDist, 1, afterBust)

\* A faulty surrenderEvalResult, which gives up half the stake whatever the
\* dealer holds.
surrenderEvalResultNoPeek(dealerDist) == EvalResult(<<-1, 2>>, Zero, dealerDist.blackjack)

surrenderEvalResult(dealerDist) ==
    EvalResult(QAdd(<<-1, 2>>, QNeg(QMul(<<1, 2>>, dealerDist.blackjack))),
               Zero, dealerDist.blackjack)

EXACT_NODE_BUDGET_HIGH == 7000
EXACT_NODE_BUDGET_LOW_TOTAL == 3500

\* The SearchBudget that calculateDecision of the file's first half allocates
\* for the HIT search of a player hand.
NewSearchBudget(playerCards) ==
    [ remaining |-> IF handValue(playerCards).total <= 11
                    THEN EXACT_NODE_BUDGET_LOW_TOTAL
                    ELSE EXACT_NODE_BUDGET_HIGH ]

\* The settlement of one played hand against one played dealer hand, which
\* the split simulation of the file's first half uses.
compareHandToDealer(playerCards, dealerCards, stake, blackjackPayout, allowBlackjackBonus) ==
    LET player == handValue(playerCards)
        dealer == handValue(dealerCards)
        playerBlackjack == allowBlackjackBonus /\ isBlackjack(playerCards)
        dealerBlackjack == isBlackjack(dealerCards)
    IN  IF player.total > 21 THEN QInt(-stake)
        ELSE IF dealer.total > 21 THEN QInt(stake)
        ELSE IF playerBlackjack /\ ~dealerBlackjack THEN QMul(QInt(stake), blackjackPayout)
        ELSE IF dealerBlackjack /\ ~playerBlackjack THEN QInt(-stake)
        ELSE IF player.total > dealer.total THEN QInt(stake)
        ELSE IF player.total < dealer.total THEN QInt(-stake)
        ELSE Zero

----------------------------------------------------------------------------
(* Optimal hand solver: expectimax against the fixed dealer distribution.  *)
(* handMemo is a Map the recursion mutates: every operator that may write  *)
(* it returns the memo it leaves behind next to its value.                 *)

\* A faulty canDoubleNow, which lets any two cards double whatever the rules.
canDoubleNowAnyTwo(cards, canDoubleFlag, rules) == canDoubleFlag /\ Len(cards) = 2

canDoubleNow(cards, canDoubleFlag, rules) ==
    IF ~canDoubleFlag \/ Len(cards) # 2 THEN FALSE
    ELSE IF rules.doubleAnyTwo THEN TRUE
    ELSE LET total == handValue(cards).total
         IN  total >= 9 /\ total <= 11

Options(canDouble, blackjackEligible, allowHit) ==
    [canDouble |-> canDouble, blackjackEligible |-> blackjackEligible, allowHit |-> allowHit]

MemoKey(cards, options) ==
    <<handStateKey(cards), options.canDouble, options.blackjackEligible, options.allowHit>>

EmptyMemo == <<>>
MemoHas(memo, key) == key \in DOMAIN memo
MemoSet(memo, key, val) == (key :> val) @@ memo

\* acc + prob * r, field by field (ev, winProb, lossProb).
Accumulate(acc, prob, r) ==
    [ ev       |-> QAdd(acc.ev, QMul(prob, r.ev)),
      winProb  |-> QAdd(acc.winProb, QMul(prob, r.winProb)),
      lossProb |-> QAdd(acc.lossProb, QMul(prob, r.lossProb)) ]

\* The DOUBLE loop shared by solveOptimalHand and calculateDecision: the
\* post-draw hand is resolved at stake 2 for every rank left in the shoe.
\* The value is (dEv, dWin, dLoss) after the turns for the ranks avail[1..k].
RECURSIVE DoubleLoop(_, _, _, _, _, _, _)
DoubleLoop(cards, counts, dealerDist, rules, totalCards, avail, k) ==
    IF k = 0 THEN EvalResult(Zero, Zero, Zero)
    ELSE Accumulate(
             DoubleLoop(cards, counts, dealerDist, rules, totalCards, avail, k - 1),
             QDivInt(counts[avail[k]], totalCards),
             resolveHandAgainstDealerDistribution(
                 Append(cards, RANKS[avail[k]]), 2, rules.blackjackPayout, FALSE, dealerDist))

\* One turn of a HIT loop on a draw that busts (before is the loop state):
\* hitEv -= prob; hitLoss += prob.
HitBust(before, prob) ==
    [ val  |-> [ ev       |-> QAdd(before.val.ev, QMul(prob, QInt(-1))),
                 winProb  |-> before.val.winProb,
                 lossProb |-> QAdd(before.val.lossProb, prob) ],
      memo |-> before.memo ]

\* One turn of a HIT or split loop on a draw solved to sub (value and memo).
HitSolved(before, prob, sub) ==
    [val |-> Accumulate(before.val, prob, sub.val), memo |-> sub.memo]

RECURSIVE solveOptimalHand(_, _, _, _, _, _)
RECURSIVE HitLoop(_, _, _, _, _, _, _, _)

\* The turn of a HIT loop for rank index ri, from the loop state before.
HitTurn(cards, counts, dealerDist, rules, totalCards, ri, before) ==
    IF handValue(Append(cards, RANKS[ri])).total > 21
    THEN HitBust(before, QDivInt(counts[ri], totalCards))
    ELSE HitSolved(before, QDivInt(counts[ri], totalCards),
             solveOptimalHand(Append(cards, RANKS[ri]), [counts EXCEPT ![ri] = @ - 1],
                              dealerDist, rules, before.memo, Options(FALSE, FALSE, TRUE)))

\* The HIT loop shared by solveOptimalHand and calculateDecision, after the
\* turns for the ranks avail[1..k]: [val |-> (hitEv, hitWin, hitLoss),
\* memo |-> handMemo as the recursive calls have left it].
HitLoop(cards, counts, dealerDist, rules, handMemo, totalCards, avail, k) ==
    IF k = 0 THEN [val |-> EvalResult(Zero, Zero, Zero), memo |-> handMemo]
    ELSE HitTurn(cards, counts, dealerDist, rules, totalCards, avail[k],
                 HitLoop(cards, counts, dealerDist, rules, handMemo, totalCards, avail, k - 1))

\* The end of solveOptimalHand: handMemo.set(memoKey, best); return best.
SolveStore(memo, memoKey, best) == [val |-> best, memo |-> MemoSet(memo, memoKey, best)]

\* best after the DOUBLE block, afterHit being best before it.
SolveDouble(memo, memoKey, afterHit, mayDouble, dbl) ==
    SolveStore(memo, memoKey, IF mayDouble /\ NumGt(dbl.ev, afterHit.ev) THEN dbl ELSE afterHit)

\* A faulty SolveHit, in which hitting wins a tie with standing.
SolveHitOnTie(memoKey, standEval, mayHit, hit, mayDouble, dbl) ==
    SolveDouble(hit.memo, memoKey,
                IF mayHit /\ NumGe(hit.val.ev, standEval.ev) THEN hit.val ELSE standEval,
                mayDouble, dbl)

\* best after the HIT block, hit being the state its loop ends in.
SolveHit(memoKey, standEval, mayHit, hit, mayDouble, dbl) ==
    SolveDouble(hit.memo, memoKey,
                IF mayHit /\ NumGt(hit.val.ev, standEval.ev) THEN hit.val ELSE standEval,
                mayDouble, dbl)

\* solveOptimalHand on a hand below 21 that the memo does not hold.
SolveFresh(cards, counts, dealerDist, rules, handMemo, options, memoKey, standEval, totalCards) ==
    SolveHit(memoKey, standEval,
             options.allowHit /\ totalCards > 0,
             IF options.allowHit /\ totalCards > 0
             THEN HitLoop(cards, counts, dealerDist, rules, handMemo, totalCards,
                          AvailableRanks(counts), Len(AvailableRanks(counts)))
             ELSE [val |-> standEval, memo |-> handMemo],
             canDoubleNow(cards, options.canDouble, rules) /\ totalCards > 0,
             DoubleLoop(cards, counts, dealerDist, rules, totalCards,
                        AvailableRanks(counts), Len(AvailableRanks(counts))))

\* solveOptimalHand on a hand of the given total, standEval being
\* resolveHandAgainstDealerDistribution(cards, 1, ...).
SolveTotal(cards, counts, dealerDist, rules, handMemo, options, total, memoKey, standEval) ==
    IF total > 21
    THEN [val |-> EvalResult(QInt(-1), Zero, One), memo |-> handMemo]
    ELSE IF total = 21
    THEN [val |-> standEval, memo |-> handMemo]
    ELSE IF MemoHas(handMemo, memoKey)
    THEN [val |-> handMemo[memoKey], memo |-> handMemo]
    ELSE SolveFresh(cards, counts, dealerDist, rules, handMemo, options, memoKey, standEval,
                    countTotalCards(counts))

solveOptimalHand(cards, counts, dealerDist, rules, handMemo, options) ==
    SolveTotal(cards, counts, dealerDist, rules, handMemo, options,
               handValue(cards).total, MemoKey(cards, options),
               resolveHandAgainstDealerDistribution(
                   cards, 1, rules.blackjackPayout, options.blackjackEligible, dealerDist))

----------------------------------------------------------------------------
(* Split evaluation (analytical): 2 x E[single split hand].               *)

\* The turn of the loop of evalSplitAction for rank index ri.
SplitTurn(pairCard, baseCounts, dealerDist, rules, totalCards, ri, before) ==
    HitSolved(before, QDivInt(baseCounts[ri], totalCards),
        solveOptimalHand(<<pairCard, RANKS[ri]>>, [baseCounts EXCEPT ![ri] = @ - 1],
                         dealerDist, rules, before.memo,
                         Options(rules.doubleAfterSplit, FALSE,
                                 ~(pairCard = "A" /\ ~rules.hitSplitAces))))

\* The loop of evalSplitAction after the turns for the ranks avail[1..k]:
\* [val |-> (ev, win, loss), memo |-> handMemo].
RECURSIVE SplitLoop(_, _, _, _, _, _, _)
SplitLoop(pairCard, baseCounts, dealerDist, rules, totalCards, avail, k) ==
    IF k = 0 THEN [val |-> EvalResult(Zero, Zero, Zero), memo |-> EmptyMemo]
    ELSE SplitTurn(pairCard, baseCounts, dealerDist, rules, totalCards, avail[k],
                   SplitLoop(pairCard, baseCounts, dealerDist, rules, totalCards, avail, k - 1))

\* { ev: ev * 2, winProb: Math.min(1, win), lossProb: Math.min(1, loss) }
SplitResult(s) ==
    EvalResult(QMul(s.ev, QInt(2)), NumMin(One, s.winProb), NumMin(One, s.lossProb))

evalSplitAction(pairCard, baseCounts, dealerDist, rules) ==
    IF countTotalCards(baseCounts) <= 0 THEN EvalResult(Zero, Zero, One)
    ELSE SplitResult(SplitLoop(pairCard, baseCounts, dealerDist, rules,
                               countTotalCards(baseCounts), AvailableRanks(baseCounts),
                               Len(AvailableRanks(baseCounts))).val)

----------------------------------------------------------------------------
(* The budgeted solver of the file's first half: solveOptimalHand with a   *)
(* SearchBudget shared by the whole recursion.  The operators return the   *)
(* value together with handMemo and budget.remaining as the call leaves    *)
(* them.  The dealer distribution is recomputed from the counts of each    *)
(* node; dealerMemo only saves the recomputation.                          *)

dealerDistribution(dealerUpcard, counts, dealerHitsSoft17) ==
    computeDealerDistribution("exact", dealerUpcard, counts, dealerHitsSoft17)

\* An EvalResult of the first half: { ev, winProb }.
EvWin(r) == [ev |-> r.ev, winProb |-> r.winProb]

\* resolveHandAgainstDealerDistribution of the first half, against the
\* dealer distribution of the counts.
ResolveOnCounts(cards, stake, eligible, dealerUpcard, counts, rules) ==
    EvWin(resolveHandAgainstDealerDistribution(
              cards, stake, rules.blackjackPayout, eligible,
              dealerDistribution(dealerUpcard, counts, rules.dealerHitsSoft17)))

BudgetKey(cards, counts, dealerUpcard, options) ==
    <<MemoKey(cards, options), counts, dealerUpcard>>

\* A faulty budget test, which never finds the budget spent.
BudgetNeverSpent(remaining) == FALSE

\* if (budget.remaining <= 0) return standEval
BudgetSpent(remaining) == remaining <= 0

\* acc + prob * r, for ev and winProb.
AccumulateEvWin(acc, prob, r) ==
    [ ev      |-> QAdd(acc.ev, QMul(prob, r.ev)),
      winProb |-> QAdd(acc.winProb, QMul(prob, r.winProb)) ]

\* The DOUBLE loop of the budgeted solver after the turns for the ranks
\* avail[1..k].
RECURSIVE BudgetDoubleLoop(_, _, _, _, _, _, _)
BudgetDoubleLoop(cards, counts, dealerUpcard, rules, totalCards, avail, k) ==
    IF k = 0 THEN [ev |-> Zero, winProb |-> Zero]
    ELSE AccumulateEvWin(
             BudgetDoubleLoop(cards, counts, dealerUpcard, rules, totalCards, avail, k - 1),
             QDivInt(counts[avail[k]], totalCards),
             ResolveOnCounts(Append(cards, RANKS[avail[k]]), 2, FALSE, dealerUpcard,
                             [counts EXCEPT ![avail[k]] = @ - 1], rules))

\* hitEv += probability * -1
BudgetHitBust(before, prob) ==
    [before EXCEPT !.val.ev = QAdd(@, QMul(prob, QInt(-1)))]

BudgetHitSolved(before, prob, sub) ==
    [ val |-> AccumulateEvWin(before.val, prob, sub.val), memo |-> sub.memo,
      remaining |-> sub.remaining ]

RECURSIVE solveOptimalHandBudgeted(_, _, _, _, _, _, _)
RECURSIVE BudgetHitLoop(_, _, _, _, _, _, _, _, _)

BudgetHitTurn(cards, counts, dealerUpcard, rules, totalCards, ri, before) ==
    IF handValue(Append(cards, RANKS[ri])).total > 21
    THEN BudgetHitBust(before, QDivInt(counts[ri], totalCards))
    ELSE BudgetHitSolved(before, QDivInt(counts[ri], totalCards),
             solveOptimalHandBudgeted(
                 Append(cards, RANKS[ri]), [counts EXCEPT ![ri] = @ - 1], dealerUpcard,
                 rules, before.memo, before.remaining, Options(FALSE, FALSE, TRUE)))

\* The HIT loop of the budgeted solver after the turns for the ranks
\* avail[1..k].
BudgetHitLoop(cards, counts, dealerUpcard, rules, handMemo, remaining, totalCards, avail, k) ==
    IF k = 0
    THEN [ val |-> [ev |-> Zero, winProb |-> Zero], memo |-> handMemo,
           remaining |-> remaining ]
    ELSE BudgetHitTurn(cards, counts, dealerUpcard, rules, totalCards, avail[k],
             BudgetHitLoop(cards, counts, dealerUpcard, rules, handMemo, remaining,
                           totalCards, avail, k - 1))

\* handMemo.set(memoKey, best); return best
BudgetStore(memo, remaining, memoKey, best) ==
    [val |-> best, memo |-> MemoSet(memo, memoKey, best), remaining |-> remaining]

BudgetDouble(memo, remaining, memoKey, afterHit, mayDouble, dbl) ==
    BudgetStore(memo, remaining, memoKey,
                IF mayDouble /\ NumGt(dbl.ev, afterHit.ev) THEN dbl ELSE afterHit)

BudgetHit(memoKey, standEval, mayHit, hit, mayDouble, dbl) ==
    BudgetDouble(hit.memo, hit.remaining, memoKey,
                 IF mayHit /\ NumGt(hit.val.ev, standEval.ev) THEN hit.val ELSE standEval,
                 mayDouble, dbl)

\* The budgeted solver on a budget that is not spent: budget.remaining -= 1,
\* then the HIT and DOUBLE blocks.
BudgetExpand(cards, counts, dealerUpcard, rules, handMemo, remaining, options, memoKey, standEval, totalCards) ==
    BudgetHit(memoKey, standEval,
              options.allowHit /\ totalCards > 0,
              IF options.allowHit /\ totalCards > 0
              THEN BudgetHitLoop(cards, counts, dealerUpcard, rules, handMemo, remaining - 1,
                                 totalCards, AvailableRanks(counts),
                                 Len(AvailableRanks(counts)))
              ELSE [val |-> standEval, memo |-> handMemo, remaining |-> remaining - 1],
              canDoubleNow(cards, options.canDouble, rules) /\ totalCards > 0,
              BudgetDoubleLoop(cards, counts, dealerUpcard, rules, totalCards,
                               AvailableRanks(counts), Len(AvailableRanks(counts))))

\* The budgeted solver on a hand below 21 that the memo does not hold.
BudgetFresh(cards, counts, dealerUpcard, rules, handMemo, remaining, options, memoKey, standEval) ==
    IF BudgetSpent(remaining)
    THEN [val |-> standEval, memo |-> handMemo, remaining |-> remaining]
    ELSE BudgetExpand(cards, counts, dealerUpcard, rules, handMemo, remaining, options,
                      memoKey, standEval, countTotalCards(counts))

BudgetTotal(cards, counts, dealerUpcard, rules, handMemo, remaining, options, total, memoKey) ==
    IF total > 21
    THEN [ val |-> [ev |-> QInt(-1), winProb |-> Zero], memo |-> handMemo,
           remaining |-> remaining ]
    ELSE IF total = 21
    THEN [ val |-> ResolveOnCounts(cards, 1, options.blackjackEligible, dealerUpcard,
                                   counts, rules),
           memo |-> handMemo, remaining |-> remaining ]
    ELSE IF MemoHas(handMemo, memoKey)
    THEN [val |-> handMemo[memoKey], memo |-> handMemo, remaining |-> remaining]
    ELSE BudgetFresh(cards, counts, dealerUpcard, rules, handMemo, remaining, options,
                     memoKey,
                     ResolveOnCounts(cards, 1, options.blackjackEligible, dealerUpcard,
                                     counts, rules))

solveOptimalHandBudgeted(cards, counts, dealerUpcard, rules, handMemo, remaining, options) ==
    BudgetTotal(cards, counts, dealerUpcard, rules, handMemo, remaining, options,
                handValue(cards).total, BudgetKey(cards, counts, dealerUpcard, options))

----------------------------------------------------------------------------
(* Public API: calculateDecision.                                          *)

MsgNoUpcard == "Select the dealer upcard to start."
MsgTwoCards == "Add your first two cards to evaluate actions."
MsgBust == "Player bust. Hand is over."
MsgExceed == "Observed cards exceed available cards for selected deck count."

\* A faulty emptyResult, which zeroes decksRemaining too.
emptyResultZeroDecks(rules, message) ==
    [ valid |-> FALSE, message |-> message,
      runningCount |-> 0, trueCount |-> Zero, decksRemaining |-> Zero,
      evByAction |-> <<>>, winRateByAction |-> <<>>, lossRateByAction |-> <<>>,
      recommendedAction |-> "undefined", safeRecommendedAction |-> "undefined" ]

\* emptyResult(message) of calculateDecision; an absent optional field of
\* the DecisionResult is "undefined".
emptyResult(rules, message) ==
    [ valid |-> FALSE, message |-> message,
      runningCount |-> 0, trueCount |-> Zero, decksRemaining |-> QInt(rules.decks),
      evByAction |-> <<>>, winRateByAction |-> <<>>, lossRateByAction |-> <<>>,
      recommendedAction |-> "undefined", safeRecommendedAction |-> "undefined" ]

\* A faulty loop turn, which skips a card that cannot be removed.
ObserveCardSkipping(st, card) ==
    LET r == removeCard(st.counts, card)
    IN  IF ~r.ok THEN st
        ELSE [ok |-> TRUE, counts |-> r.counts,
              runningCount |-> st.runningCount + HI_LO_TAGS(card)]

\* One turn of "for (const card of observed)" from loop state st.
ObserveCard(st, card) ==
    LET r == removeCard(st.counts, card)
    IN  IF ~r.ok THEN [st EXCEPT !.ok = FALSE]
        ELSE [ok |-> TRUE, counts |-> r.counts,
              runningCount |-> st.runningCount + HI_LO_TAGS(card)]

\* The loop over observed[lo..hi] from state st, cards in order; a failed
\* removeCard (ok = FALSE) ends the loop.  The range is halved so that the
\* evaluation stays shallow.
RECURSIVE ObserveRange(_, _, _, _)
ObserveRange(st, observed, lo, hi) ==
    IF lo > hi THEN st
    ELSE IF lo = hi THEN ObserveCard(st, observed[lo])
    ELSE LET mid == (lo + hi) \div 2
             left == ObserveRange(st, observed, lo, mid)
         IN  IF ~left.ok THEN left ELSE ObserveRange(left, observed, mid + 1, hi)

RemoveObserved(counts, observed) ==
    ObserveRange([ok |-> TRUE, counts |-> counts, runningCount |-> 0],
                 observed, 1, Len(observed))

\* A faulty action list, which offers SPLIT on two cards of equal value.
BuildActionsByValue(playerCards, rules) ==
    <<"STAND", "HIT", "DOUBLE">>
    \o (IF Len(playerCards) = 2 /\ rankValue(playerCards[1]) = rankValue(playerCards[2])
           /\ rules.maxSplitHands >= 2
        THEN <<"SPLIT">> ELSE <<>>)
    \o (IF rules.lateSurrender /\ Len(playerCards) = 2 THEN <<"SURRENDER">> ELSE <<>>)

\* The action list built at lines 1542-1548.
BuildActions(playerCards, rules) ==
    <<"STAND", "HIT", "DOUBLE">>
    \o (IF Len(playerCards) = 2 /\ playerCards[1] = playerCards[2] /\ rules.maxSplitHands >= 2
        THEN <<"SPLIT">> ELSE <<>>)
    \o (IF rules.lateSurrender /\ Len(playerCards) = 2 THEN <<"SURRENDER">> ELSE <<>>)

\* Faulty reductions: one lets the last of several equal EVs win, the other
\* keeps the lowest EV.
RECURSIVE ReduceByEvLastWins(_, _, _, _)
ReduceByEvLastWins(actions, evByAction, i, best) ==
    IF i > Len(actions) THEN best
    ELSE ReduceByEvLastWins(actions, evByAction, i + 1,
             IF NumGe(evByAction[actions[i]], evByAction[best]) THEN actions[i] ELSE best)

RECURSIVE ReduceByEvLowest(_, _, _, _)
ReduceByEvLowest(actions, evByAction, i, best) ==
    IF i > Len(actions) THEN best
    ELSE ReduceByEvLowest(actions, evByAction, i + 1,
             IF NumGt(evByAction[best], evByAction[actions[i]]) THEN actions[i] ELSE best)

\* actions.reduce((best, cur) => ev[cur] > ev[best] ? cur : best, actions[0])
RECURSIVE ReduceByEv(_, _, _, _)
ReduceByEv(actions, evByAction, i, best) ==
    IF i > Len(actions) THEN best
    ELSE ReduceByEv(actions, evByAction, i + 1,
             IF NumGt(evByAction[actions[i]], evByAction[best]) THEN actions[i] ELSE best)

SafeScore(eval) == NumSub(eval.ev, NumMul(RISK_AVERSION_WEIGHT, eval.lossProb))

\* actions.reduce((best, cur) => cScore > bScore ? cur : best, actions[0])
RECURSIVE ReduceBySafeScore(_, _, _, _)
ReduceBySafeScore(actions, valueByAction, i, best) ==
    IF i > Len(actions) THEN best
    ELSE ReduceBySafeScore(actions, valueByAction, i + 1,
             IF NumGt(SafeScore(valueByAction[actions[i]]), SafeScore(valueByAction[best]))
             THEN actions[i] ELSE best)

\* A faulty allocation of baseCounts: a shoe kept between the calls, built
\* on the first call only.
ReusedBaseCounts(decks) ==
    IF baseCountsHeap = <<>> THEN toShoeCounts(decks) ELSE baseCountsHeap

\* const baseCounts = toShoeCounts(rules.decks): the array of this call.
NewBaseCounts(decks) == toShoeCounts(decks)

\* const handMemo = new Map<string, EvalResult>(): the Map of this call.
NewHandMemo == EmptyMemo

\* The evaluation of one action of the list (lines 1550-1602).
ActionValue(a, playerCards, baseCounts, dealerDist, rules) ==
    CASE a = "STAND" ->
             resolveHandAgainstDealerDistribution(
                 playerCards, 1, rules.blackjackPayout, TRUE, dealerDist)
      [] a = "HIT" ->
             HitLoop(playerCards, baseCounts, dealerDist, rules, NewHandMemo,
                     countTotalCards(baseCounts), AvailableRanks(baseCounts),
                     Len(AvailableRanks(baseCounts))).val
      [] a = "DOUBLE" ->
             IF canDoubleNow(playerCards, TRUE, rules)
             THEN DoubleLoop(playerCards, baseCounts, dealerDist, rules,
                             countTotalCards(baseCounts), AvailableRanks(baseCounts),
                             Len(AvailableRanks(baseCounts)))
             ELSE EvalResult(NegInf, Zero, One)
      [] a = "SPLIT" -> evalSplitAction(playerCards[1], baseCounts, dealerDist, rules)
      [] a = "SURRENDER" -> surrenderEvalResult(dealerDist)

\* The Map valueByAction over the actions i.. of the list.
RECURSIVE ValueByAction(_, _, _, _, _, _)
ValueByAction(playerCards, actions, baseCounts, dealerDist, rules, i) ==
    IF i > Len(actions) THEN <<>>
    ELSE (actions[i] :> ActionValue(actions[i], playerCards, baseCounts, dealerDist, rules))
         @@ ValueByAction(playerCards, actions, baseCounts, dealerDist, rules, i + 1)

\* The result calculateDecision returns when no gate fails.
ValidResult(runningCount, decksRemaining, actions, valueByAction) ==
    [ valid |-> TRUE, message |-> "undefined",
      runningCount |-> runningCount,
      trueCount |-> IF NumGt(decksRemaining, Zero)
                    THEN QDiv(QInt(runningCount), decksRemaining)
                    ELSE Zero,
      decksRemaining |-> decksRemaining,
      evByAction |-> [a \in DOMAIN valueByAction |-> valueByAction[a].ev],
      winRateByAction |-> [a \in DOMAIN valueByAction |-> valueByAction[a].winProb],
      lossRateByAction |-> [a \in DOMAIN valueByAction |-> valueByAction[a].lossProb],
      recommendedAction |->
          ReduceByEv(actions, [a \in DOMAIN valueByAction |-> valueByAction[a].ev],
                     1, actions[1]),
      safeRecommendedAction |-> ReduceBySafeScore(actions, valueByAction, 1, actions[1]) ]

\* calculateDecision from the shoe left once the observed cards are removed.
EvaluateActions(playerCards, dealerUpcard, rules, baseCounts, runningCount) ==
    ValidResult(runningCount, QDivInt(countTotalCards(baseCounts), 52),
                BuildActions(playerCards, rules),
                ValueByAction(playerCards, BuildActions(playerCards, rules), baseCounts,
                    computeDealerDistribution("exact", dealerUpcard, baseCounts,
                                              rules.dealerHitsSoft17),
                    rules, 1))

\* calculateDecision past its first three gates, removed being the state
\* the loop over the observed cards ends in.
AfterObserved(in, rules, removed) ==
    IF ~removed.ok THEN emptyResult(rules, MsgExceed)
    ELSE EvaluateActions(in.playerCards, in.dealerUpcard, rules, removed.counts,
                         removed.runningCount)

GatedDecision(in, rules) ==
    IF in.dealerUpcard = "null" THEN emptyResult(rules, MsgNoUpcard)
    ELSE IF Len(in.playerCards) < 2 THEN emptyResult(rules, MsgTwoCards)
    ELSE IF handValue(in.playerCards).total > 21 THEN emptyResult(rules, MsgBust)
    ELSE AfterObserved(in, rules,
             RemoveObserved(NewBaseCounts(rules.decks),
                            in.playerCards \o <<in.dealerUpcard>> \o in.tableSeenCards))

calculateDecision(in) == GatedDecision(in, normalizeRules(in.rules))

----------------------------------------------------------------------------
(* Inputs of calculateDecision.  Most of the shoe is put on the table      *)
(* (tableSeenCards), so that a few cards are left to draw and the exact    *)
(* probabilities stay small fractions.                                     *)

MaxShoeLeft == 2

PlayerHands ==
    { <<>>, <<"8">>,
      <<"8", "8">>, <<"A", "A">>, <<"K", "K">>, <<"10", "K">>,
      <<"A", "K">>, <<"5", "6">>, <<"10", "7">>, <<"A", "6">>, <<"A", "8">>,
      <<"5", "6", "3">>, <<"5", "5", "5">>, <<"10", "7", "5">> }

DealerUpcards == {"null", "A", "6", "K"}

\* Ranks of the cards that may be left in the shoe.
LeftRanks == {"A", "4", "7", "K"}

LeftShoes ==
    { c \in [LeftRanks -> 0..MaxShoeLeft] : c["A"] + c["4"] + c["7"] + c["K"] <= MaxShoeLeft }

CountOf(cards, rank) == Cardinality({i \in 1..Len(cards) : cards[i] = rank})


\* The cards on the table that leave `left` in a shoe of `decks` decks once
\* the player's cards and the upcard are removed too, in rank order.
RECURSIVE TableSeenFor(_, _, _, _, _)
TableSeenFor(decks, playerCards, upcard, left, ri) ==
    IF ri > Len(RANKS) THEN <<>>
    ELSE LET r == RANKS[ri]
             held == CountOf(playerCards, r) + (IF upcard = r THEN 1 ELSE 0)
             keep == IF r \in LeftRanks THEN left[r] ELSE 0
         IN  Repeat(r, 4 * decks - held - keep)
             \o TableSeenFor(decks, playerCards, upcard, left, ri + 1)

Opt(b) == <<b>>
Undefined == <<>>

\* Rule sets: one deck with every combination of the flags that shape the
\* action set and the player's options, the soft-17 rule, and other deck
\* numbers (0 and 5/2 are normalized to 1 and 2) with other maxSplitHands
\* (7 and 1 are normalized to 4 and 2).
RuleSets ==
    { [ decks |-> <<1, 1>>, dealerHitsSoft17 |-> FALSE, doubleAfterSplit |-> das,
        blackjackPayout |-> <<3, 2>>, lateSurrender |-> ls, maxSplitHands |-> Undefined,
        resplitAces |-> Undefined, hitSplitAces |-> hsa, doubleAnyTwo |-> dat ] :
        das \in BOOLEAN, ls \in {Undefined, Opt(FALSE)},
        hsa \in {Undefined, Opt(TRUE)}, dat \in {Undefined, Opt(FALSE)} }
    \cup
    { [ decks |-> d[1], dealerHitsSoft17 |-> TRUE, doubleAfterSplit |-> TRUE,
        blackjackPayout |-> <<6, 5>>, lateSurrender |-> Opt(TRUE), maxSplitHands |-> Opt(d[2]),
        resplitAces |-> Opt(FALSE), hitSplitAces |-> Opt(FALSE), doubleAnyTwo |-> Opt(TRUE) ] :
        d \in { <<<<0, 1>>, <<7, 1>>>>, <<<<1, 1>>, <<4, 1>>>>, <<<<5, 2>>, <<1, 1>>>> } }

DefaultRules == CHOOSE r \in RuleSets : r.decks = <<1, 1>> /\ r.dealerHitsSoft17

MakeInput(pc, up, left, extra, r) ==
    [ playerCards |-> pc, dealerUpcard |-> up,
      tableSeenCards |-> TableSeenFor(normalizeRules(r).decks, pc, up, left, 1) \o extra,
      rules |-> r ]

----------------------------------------------------------------------------
(* Specification of one call of calculateDecision on any input: every      *)
(* hand, upcard, shoe left and rule set; and, with the default rules, one  *)
(* more card seen on the table than TableSeenFor gives (it overdraws the   *)
(* shoe unless a card of that rank was left).                              *)

DispatchIdle ==
    /\ decisionInput = <<>> /\ decision = <<>> /\ isDecisionPending = FALSE
    /\ latestDecisionRequestId = 0 /\ nextDecisionRequestId = 1
    /\ pendingDecisionRequests = <<>> /\ workerInbox = <<>> /\ workerOutbox = <<>>
    /\ reactions = <<>> /\ delivered = <<>>

ShoeIdle ==
    /\ shoeCounts = <<>> /\ shoeDecks = 0 /\ cardsRemoved = 0 /\ lastOp = <<>> /\ shoeOps = 0

DealerIdle == dealerIn = <<>> /\ distribution = <<>>

DecisionIdle == input = <<>> /\ phase = "idle" /\ result = <<>>

CallIdle == call = <<>> /\ ret = <<>>

CallsIdle == calls = <<>> /\ baseCountsHeap = <<>> /\ handMemoHeap = <<>>
HandsIdle == hands = <<>>
BranchIdle == dealerBranch = <<>>
SimIdle == sim = <<>>

Init ==
    /\ \/ \E pc \in PlayerHands, up \in DealerUpcards, left \in LeftShoes, r \in RuleSets :
             input = MakeInput(pc, up, left, <<>>, r)
       \/ \E pc \in PlayerHands, up \in DealerUpcards, left \in LeftShoes, x \in {"K", "8"} :
             input = MakeInput(pc, up, left, <<x>>, DefaultRules)
    /\ phase = "input"
    /\ result = <<>>
    /\ DispatchIdle /\ ShoeIdle /\ DealerIdle /\ CallIdle /\ CallsIdle /\ HandsIdle /\ BranchIdle /\ SimIdle

Calculate ==
    /\ phase = "input"
    /\ result' = calculateDecision(input)
    /\ phase' = "returned"
    /\ UNCHANGED <<input, dispatchVars, shoeVars, dealerVars, callVars, callsVars, handsVars, branchVars, simVars>>

Next == Calculate

Spec == Init /\ [][Next]_vars

----------------------------------------------------------------------------
(* Specification of the dispatch: the decision effect of App (App.tsx      *)
(* 655-689), calculateDecisionAsync and the worker's onmessage of the main *)
(* thread (71-96), the worker (decisionWorker.ts 18-23) and the .then      *)
(* callback.  The promise of calculateDecisionAsync is never rejected, so  *)
(* the .catch callback never runs.  A resolved promise runs its .then      *)
(* callback in a later microtask, which is a step of its own here.         *)

MaxRequests == 3

\* The inputs the component goes through: no upcard, a hand to evaluate
\* with one card left in the shoe, and a bust hand.
OneKingLeft == [r \in LeftRanks |-> IF r = "K" THEN 1 ELSE 0]

DispatchInputs ==
    { [ playerCards |-> <<>>, dealerUpcard |-> "null", tableSeenCards |-> <<>>,
        rules |-> DefaultRules ],
      MakeInput(<<"10", "7">>, "6", OneKingLeft, <<>>, DefaultRules),
      MakeInput(<<"10", "7", "5">>, "6", OneKingLeft, <<>>, DefaultRules) }

\* The placeholder the effect displays while the worker computes.
CalculatingResult(in) ==
    [ valid |-> FALSE, message |-> "Calculating exact odds...",
      runningCount |-> 0, trueCount |-> Zero, decksRemaining |-> in.rules.decks,
      evByAction |-> <<>>, winRateByAction |-> <<>>, lossRateByAction |-> <<>>,
      recommendedAction |-> "undefined", safeRecommendedAction |-> "undefined" ]

InitDispatch ==
    /\ decisionInput \in DispatchInputs
    /\ decision = calculateDecision(decisionInput)
    /\ isDecisionPending = FALSE
    /\ latestDecisionRequestId = 0
    /\ nextDecisionRequestId = 1
    /\ pendingDecisionRequests = <<>>
    /\ workerInbox = <<>>
    /\ workerOutbox = <<>>
    /\ reactions = <<>>
    /\ delivered = <<>>
    /\ DecisionIdle /\ ShoeIdle /\ DealerIdle /\ CallIdle /\ CallsIdle /\ HandsIdle /\ BranchIdle /\ SimIdle

\* The effect runs on mount with the initial decisionInput and again each
\* time decisionInput has changed; calculateDecisionAsync is part of it.
DecisionEffect(in) ==
    /\ latestDecisionRequestId < MaxRequests
    /\ IF latestDecisionRequestId = 0 THEN in = decisionInput ELSE in # decisionInput
    /\ decisionInput' = in
    /\ latestDecisionRequestId' = latestDecisionRequestId + 1
    /\ isDecisionPending' = TRUE
    /\ decision' = IF Len(in.playerCards) >= 2 /\ in.dealerUpcard # "null"
                   THEN CalculatingResult(in) ELSE decision
    /\ nextDecisionRequestId' = nextDecisionRequestId + 1
    /\ pendingDecisionRequests' =
           (nextDecisionRequestId :> (latestDecisionRequestId + 1)) @@ pendingDecisionRequests
    /\ workerInbox' = Append(workerInbox, [id |-> nextDecisionRequestId, input |-> in])
    /\ UNCHANGED <<workerOutbox, reactions, delivered>>
    /\ UNCHANGED <<decisionVars, shoeVars, dealerVars, callVars, callsVars, handsVars, branchVars, simVars>>

\* self.onmessage of decisionWorker.ts.
WorkerOnMessage ==
    /\ workerInbox # <<>>
    /\ workerOutbox' = Append(workerOutbox,
           [id |-> Head(workerInbox).id, result |-> calculateDecision(Head(workerInbox).input)])
    /\ workerInbox' = Tail(workerInbox)
    /\ UNCHANGED <<decisionInput, decision, isDecisionPending, latestDecisionRequestId,
                   nextDecisionRequestId, pendingDecisionRequests, reactions, delivered>>
    /\ UNCHANGED <<decisionVars, shoeVars, dealerVars, callVars, callsVars, handsVars, branchVars, simVars>>

\* decisionWorker.onmessage of the main thread: the resolver of the id, if
\* any, is removed and called.
MainOnMessage ==
    /\ workerOutbox # <<>>
    /\ workerOutbox' = Tail(workerOutbox)
    /\ LET id == Head(workerOutbox).id
       IN  IF id \notin DOMAIN pendingDecisionRequests
           THEN UNCHANGED <<pendingDecisionRequests, reactions>>
           ELSE /\ pendingDecisionRequests' =
                       [i \in DOMAIN pendingDecisionRequests \ {id} |->
                           pendingDecisionRequests[i]]
                /\ reactions' = Append(reactions,
                       [requestId |-> pendingDecisionRequests[id],
                        result |-> Head(workerOutbox).result])
    /\ UNCHANGED <<decisionInput, decision, isDecisionPending, latestDecisionRequestId,
                   nextDecisionRequestId, workerInbox, delivered>>
    /\ UNCHANGED <<decisionVars, shoeVars, dealerVars, callVars, callsVars, handsVars, branchVars, simVars>>

\* A faulty .then callback, without the comparison of the request ids.
ThenCallbackUnguarded ==
    /\ reactions # <<>>
    /\ reactions' = Tail(reactions)
    /\ decision' = Head(reactions).result
    /\ isDecisionPending' = FALSE
    /\ delivered' = Append(delivered,
           [requestId |-> Head(reactions).requestId, applied |-> TRUE])
    /\ UNCHANGED <<decisionInput, latestDecisionRequestId, nextDecisionRequestId,
                   pendingDecisionRequests, workerInbox, workerOutbox>>
    /\ UNCHANGED <<decisionVars, shoeVars, dealerVars, callVars, callsVars, handsVars, branchVars, simVars>>

\* The .then callback of the effect run requestId.
ThenCallback ==
    /\ reactions # <<>>
    /\ reactions' = Tail(reactions)
    /\ IF latestDecisionRequestId # Head(reactions).requestId
       THEN UNCHANGED <<decision, isDecisionPending>>
       ELSE /\ decision' = Head(reactions).result
            /\ isDecisionPending' = FALSE
    /\ delivered' = Append(delivered,
           [requestId |-> Head(reactions).requestId,
            applied |-> latestDecisionRequestId = Head(reactions).requestId])
    /\ UNCHANGED <<decisionInput, latestDecisionRequestId, nextDecisionRequestId,
                   pendingDecisionRequests, workerInbox, workerOutbox>>
    /\ UNCHANGED <<decisionVars, shoeVars, dealerVars, callVars, callsVars, handsVars, branchVars, simVars>>

NextDispatch ==
    \/ \E in \in DispatchInputs : DecisionEffect(in)
    \/ WorkerOnMessage
    \/ MainOnMessage
    \/ ThenCallback

SpecDispatch == InitDispatch /\ [][NextDispatch]_vars

----------------------------------------------------------------------------
(* Specification of a shoe: built by toShoeCounts, then changed by         *)
(* removeCard, by drawRandomCard and by the clone-and-decrement step of    *)
(* the probability trees (1304-1313).  The loop of calculateDecision over  *)
(* the observed cards is a run of removeCard calls on a shoe just built,   *)
(* which ends at the first failure.                                        *)

MaxShoeOps == 3

ShoeDeckNumbers == {1}

\* Ranks removeCard and the branch step are called with.
ShoeRanks == {"A", "7", "K"}

\* Card lists the loop over observed cards is run on: they leave no card,
\* one king, or an ace and a seven in the shoe, or hold one king too many.
ShoeLefts ==
    { [r \in LeftRanks |-> 0],
      [r \in LeftRanks |-> IF r = "K" THEN 1 ELSE 0],
      [r \in LeftRanks |-> IF r \in {"A", "7"} THEN 1 ELSE 0] }

ObservedLists(decks) ==
    { TableSeenFor(decks, <<>>, "null", left, 1) : left \in ShoeLefts }
    \cup { TableSeenFor(decks, <<>>, "null", [r \in LeftRanks |-> 0], 1) \o <<"K", "A">> }

\* Number of cards the loop over observed removes from cnts before it ends:
\* all of them, or those before the first card whose rank is used up.
ObservedRemoved(cnts, observed) ==
    LET fails == { i \in 1..Len(observed) :
                     CountOf(SubSeq(observed, 1, i), observed[i])
                         > cnts[RANK_TO_INDEX(observed[i])] }
    IN  IF fails = {} THEN Len(observed)
        ELSE (CHOOSE i \in fails : \A j \in fails : i <= j) - 1

InitShoe ==
    /\ shoeDecks \in ShoeDeckNumbers
    /\ shoeCounts = toShoeCounts(shoeDecks)
    /\ cardsRemoved = 0
    /\ lastOp = [op |-> "toShoeCounts", rank |-> "null", ok |-> TRUE]
    /\ shoeOps = 0
    /\ DecisionIdle /\ DispatchIdle /\ DealerIdle /\ CallIdle /\ CallsIdle /\ HandsIdle /\ BranchIdle /\ SimIdle

RemoveCard(rank) ==
    /\ shoeOps < MaxShoeOps
    /\ LET r == removeCard(shoeCounts, rank)
       IN  /\ shoeCounts' = r.counts
           /\ cardsRemoved' = cardsRemoved + (IF r.ok THEN 1 ELSE 0)
           /\ lastOp' = [op |-> "removeCard", rank |-> rank, ok |-> r.ok]
    /\ shoeOps' = shoeOps + 1
    /\ UNCHANGED <<shoeDecks, decisionVars, dispatchVars, dealerVars, callVars, callsVars, handsVars, branchVars, simVars>>

DrawRandomCard(pick) ==
    /\ shoeOps < MaxShoeOps
    /\ LET d == drawRandomCard(shoeCounts, pick)
       IN  /\ shoeCounts' = d.counts
           /\ cardsRemoved' = cardsRemoved + (IF d.rank # "null" THEN 1 ELSE 0)
           /\ lastOp' = [op |-> "drawRandomCard", rank |-> d.rank, ok |-> d.rank # "null"]
    /\ shoeOps' = shoeOps + 1
    /\ UNCHANGED <<shoeDecks, decisionVars, dispatchVars, dealerVars, callVars, callsVars, handsVars, branchVars, simVars>>

\* if (counts[ri] <= 0) continue; next = cloneCounts(counts); next[ri] -= 1:
\* the shoe of the branch that draws rank.
BranchDecrement(rank) ==
    /\ shoeOps < MaxShoeOps
    /\ shoeCounts[RANK_TO_INDEX(rank)] > 0
    /\ shoeCounts' = [shoeCounts EXCEPT ![RANK_TO_INDEX(rank)] = @ - 1]
    /\ cardsRemoved' = cardsRemoved + 1
    /\ lastOp' = [op |-> "branch", rank |-> rank, ok |-> TRUE]
    /\ shoeOps' = shoeOps + 1
    /\ UNCHANGED <<shoeDecks, decisionVars, dispatchVars, dealerVars, callVars, callsVars, handsVars, branchVars, simVars>>

\* const baseCounts = toShoeCounts(rules.decks); for (const card of observed) ...
ObserveCards(observed) ==
    /\ shoeOps = 0
    /\ LET r == RemoveObserved(shoeCounts, observed)
       IN  /\ shoeCounts' = r.counts
           /\ lastOp' = [op |-> "observe", rank |-> "null", ok |-> r.ok]
    /\ cardsRemoved' = cardsRemoved + ObservedRemoved(shoeCounts, observed)
    /\ shoeOps' = shoeOps + 1
    /\ UNCHANGED <<shoeDecks, decisionVars, dispatchVars, dealerVars, callVars, callsVars, handsVars, branchVars, simVars>>

\* Math.floor(Math.random() * total) is any of 0 .. total - 1.
Picks(cnts) == 0..(IF countTotalCards(cnts) > 0 THEN countTotalCards(cnts) - 1 ELSE 0)

NextShoe ==
    \/ \E rank \in ShoeRanks : RemoveCard(rank)
    \/ \E pick \in Picks(shoeCounts) : DrawRandomCard(pick)
    \/ \E rank \in ShoeRanks : BranchDecrement(rank)
    \/ \E observed \in ObservedLists(shoeDecks) : ObserveCards(observed)

SpecShoe == InitShoe /\ [][NextShoe]_vars

----------------------------------------------------------------------------
(* Specification of one call of computeDealerDistribution in binary64      *)
(* arithmetic, on every upcard, rule and small shoe of the sets below.     *)

MaxDealerShoe == 3

DealerSpecUpcards == {"A", "6", "7"}

\* Shoes of at most MaxDealerShoe cards with ranks A, 2 and 3, the
\* exhausted shoe among them.
DealerShoes ==
    { <<a, b, c, 0, 0, 0, 0, 0, 0, 0, 0, 0, 0>> :
        a \in 0..MaxDealerShoe, b \in 0..MaxDealerShoe, c \in 0..MaxDealerShoe }

InitDealer ==
    /\ \E up \in DealerSpecUpcards, cs \in DealerShoes, h17 \in BOOLEAN :
           /\ countTotalCards(cs) <= MaxDealerShoe
           /\ dealerIn = [dealerUpcard |-> up, counts |-> cs, dealerHitsSoft17 |-> h17]
    /\ distribution = <<>>
    /\ DecisionIdle /\ DispatchIdle /\ ShoeIdle /\ CallIdle /\ CallsIdle /\ HandsIdle /\ BranchIdle /\ SimIdle

ComputeDealerDistribution ==
    /\ distribution = <<>>
    /\ distribution' = computeDealerDistribution(
                         "binary64", dealerIn.dealerUpcard, dealerIn.counts,
                         dealerIn.dealerHitsSoft17)
    /\ UNCHANGED <<dealerIn, decisionVars, dispatchVars, shoeVars, callVars, callsVars, handsVars, branchVars, simVars>>

NextDealer == ComputeDealerDistribution

SpecDealer == InitDealer /\ [][NextDealer]_vars

----------------------------------------------------------------------------
(* Specification of one call of a function of blackjack.ts on its own:     *)
(* surrenderEvalResult and resolveHandAgainstDealerDistribution on every   *)
(* dealer distribution whose probabilities are multiples of 1/DistGrain,   *)
(* handValue on every sequence of at most MaxHandLen ranks, and            *)
(* solveOptimalHand with a new handMemo on small shoes.                    *)

DistGrain == 3

MaxHandLen == 3

\* The dealer distributions with probabilities k/DistGrain that sum to 1.
CallWeights ==
    { w \in [1..7 -> 0..DistGrain] :
        w[1] + w[2] + w[3] + w[4] + w[5] + w[6] + w[7] = DistGrain }

CallDist(w) ==
    [ blackjack |-> Q(w[1], DistGrain),
      bust      |-> Q(w[2], DistGrain),
      totals    |-> Totals(Q(w[3], DistGrain), Q(w[4], DistGrain), Q(w[5], DistGrain),
                           Q(w[6], DistGrain), Q(w[7], DistGrain)) ]

\* Hands to resolve: blackjacks, ordinary totals from 11 to 21, three-card
\* 21s and a bust hand.
ResolveHands ==
    { <<"A", "K">>, <<"10", "A">>, <<"5", "6">>, <<"10", "7">>, <<"A", "7">>,
      <<"10", "9">>, <<"K", "Q">>, <<"7", "7", "7">>, <<"A", "A", "9">>,
      <<"10", "7", "5">> }

\* Sequences of at most n ranks.
RECURSIVE RankSeqs(_)
RankSeqs(n) ==
    IF n = 0 THEN {<<>>}
    ELSE RankSeqs(n - 1)
         \cup { Append(c, r) : c \in {d \in RankSeqs(n - 1) : Len(d) = n - 1}, r \in RankSet }

\* Player hands a HIT search is started for: the two-card hands and the
\* longer hands of ResolveHands that are not bust.
BudgetHands ==
    { c \in RankSeqs(2) \cup ResolveHands : Len(c) >= 2 /\ handValue(c).total <= 21 }

\* Completed dealer hands: naturals, standing totals from 17 to 21 and busts.
DealerFinalHands ==
    { <<"A", "K">>, <<"10", "A">>, <<"10", "7">>, <<"A", "6">>, <<"9", "9">>,
      <<"6", "3", "K">>, <<"K", "Q">>, <<"7", "7", "7">>, <<"5", "6", "J">>,
      <<"10", "6", "K">>, <<"4", "9", "9">> }

\* Hands to solve, all below 21, and the shoes to draw from.
SolveHands ==
    { <<"5", "6">>, <<"10", "7">>, <<"A", "6">>, <<"8", "8">>, <<"10", "4">>,
      <<"5", "6", "3">> }

ShoeOf(left) == [i \in RankIdx |-> IF RANKS[i] \in LeftRanks THEN left[RANKS[i]] ELSE 0]

SolveRules ==
    { normalizeRules(r) : r \in { x \in RuleSets : /\ x.decks = <<1, 1>>
                                                  /\ ~x.dealerHitsSoft17
                                                  /\ x.doubleAfterSplit
                                                  /\ x.lateSurrender = Undefined
                                                  /\ x.hitSplitAces = Undefined } }

\* The largest budget a search of the budgeted solver starts with.
MaxBudget == 2

\* Rules for a split: every combination of doubleAfterSplit, hitSplitAces and
\* doubleAnyTwo.
SplitRules ==
    { normalizeRules(r) : r \in { x \in RuleSets : /\ x.decks = <<1, 1>>
                                                  /\ ~x.dealerHitsSoft17
                                                  /\ x.lateSurrender = Undefined } }

SolveOptions == { Options(cd, be, ah) : cd \in BOOLEAN, be \in BOOLEAN, ah \in BOOLEAN }

\* A call of one of the four functions on any of its inputs: every
\* distribution, hand, stake, payout and flag for the resolvers, every
\* sequence of ranks for handValue, and for the solver every hand, option set
\* and shoe left with the dealer distribution of that shoe.
InitCall ==
    /\ \/ \E w \in CallWeights :
             call = [fn |-> "surrenderEvalResult", dealerDist |-> CallDist(w)]
       \/ \E pc \in ResolveHands, st \in {1, 2}, pay \in {<<3, 2>>, <<6, 5>>},
             be \in BOOLEAN, w \in CallWeights :
             call = [ fn |-> "resolveHandAgainstDealerDistribution", playerCards |-> pc,
                      stake |-> st, blackjackPayout |-> pay, blackjackEligible |-> be,
                      dealerDist |-> CallDist(w) ]
       \/ \E c \in RankSeqs(MaxHandLen) : call = [fn |-> "handValue", cards |-> c]
       \/ \E left \in LeftShoes, up \in {"A", "6", "K"} :
             LET dealerDist == computeDealerDistribution("exact", up, ShoeOf(left), FALSE)
             IN  \E c \in SolveHands, r \in SolveRules, o \in SolveOptions :
                     call = [ fn |-> "solveOptimalHand", cards |-> c,
                              counts |-> ShoeOf(left), dealerDist |-> dealerDist,
                              rules |-> r, options |-> o ]
       \/ \E pc \in BudgetHands : call = [fn |-> "NewSearchBudget", playerCards |-> pc]
       \/ \E c \in SolveHands, left \in LeftShoes, up \in {"6", "K"}, r \in SolveRules,
             cd \in BOOLEAN, ah \in BOOLEAN, remaining \in 0..MaxBudget :
             call = [ fn |-> "solveOptimalHandBudgeted", cards |-> c,
                      counts |-> ShoeOf(left), dealerUpcard |-> up, rules |-> r,
                      options |-> Options(cd, FALSE, ah), budget |-> remaining ]
       \/ \E left \in LeftShoes, up \in {"A", "6", "K"} :
             LET dealerDist == computeDealerDistribution("exact", up, ShoeOf(left), FALSE)
             IN  \E pair \in {"A", "8"}, r \in SplitRules :
                     call = [ fn |-> "evalSplitAction", pairCard |-> pair,
                              baseCounts |-> ShoeOf(left), dealerDist |-> dealerDist,
                              rules |-> r ]
       \/ \E pc \in ResolveHands, dc \in DealerFinalHands, st \in {1, 2},
             pay \in {<<3, 2>>, <<6, 5>>}, bonus \in BOOLEAN :
             call = [ fn |-> "compareHandToDealer", playerCards |-> pc, dealerCards |-> dc,
                      stake |-> st, blackjackPayout |-> pay, allowBlackjackBonus |-> bonus ]
    /\ ret = <<>>
    /\ DecisionIdle /\ DispatchIdle /\ ShoeIdle /\ DealerIdle /\ CallsIdle /\ HandsIdle /\ BranchIdle /\ SimIdle

CallSurrenderEvalResult ==
    /\ ret = <<>>
    /\ call.fn = "surrenderEvalResult"
    /\ ret' = surrenderEvalResult(call.dealerDist)
    /\ UNCHANGED <<call, decisionVars, dispatchVars, shoeVars, dealerVars, callsVars, handsVars, branchVars, simVars>>

CallResolveHand ==
    /\ ret = <<>>
    /\ call.fn = "resolveHandAgainstDealerDistribution"
    /\ ret' = resolveHandAgainstDealerDistribution(
                  call.playerCards, call.stake, call.blackjackPayout,
                  call.blackjackEligible, call.dealerDist)
    /\ UNCHANGED <<call, decisionVars, dispatchVars, shoeVars, dealerVars, callsVars, handsVars, branchVars, simVars>>

CallHandValue ==
    /\ ret = <<>>
    /\ call.fn = "handValue"
    /\ ret' = handValue(call.cards)
    /\ UNCHANGED <<call, decisionVars, dispatchVars, shoeVars, dealerVars, callsVars, handsVars, branchVars, simVars>>

\* solveOptimalHand with a handMemo just allocated; ret is the value returned.
CallSolveOptimalHand ==
    /\ ret = <<>>
    /\ call.fn = "solveOptimalHand"
    /\ ret' = solveOptimalHand(call.cards, call.counts, call.dealerDist, call.rules,
                               EmptyMemo, call.options).val
    /\ UNCHANGED <<call, decisionVars, dispatchVars, shoeVars, dealerVars, callsVars, handsVars, branchVars, simVars>>

CallCompareHandToDealer ==
    /\ ret = <<>>
    /\ call.fn = "compareHandToDealer"
    /\ ret' = compareHandToDealer(call.playerCards, call.dealerCards, call.stake,
                                  call.blackjackPayout, call.allowBlackjackBonus)
    /\ UNCHANGED <<call, decisionVars, dispatchVars, shoeVars, dealerVars, callsVars,
                   handsVars, branchVars, simVars>>

CallNewSearchBudget ==
    /\ ret = <<>>
    /\ call.fn = "NewSearchBudget"
    /\ ret' = NewSearchBudget(call.playerCards)
    /\ UNCHANGED <<call, decisionVars, dispatchVars, shoeVars, dealerVars, callsVars,
                   handsVars, branchVars, simVars>>

CallEvalSplitAction ==
    /\ ret = <<>>
    /\ call.fn = "evalSplitAction"
    /\ ret' = evalSplitAction(call.pairCard, call.baseCounts, call.dealerDist, call.rules)
    /\ UNCHANGED <<call, decisionVars, dispatchVars, shoeVars, dealerVars, callsVars,
                   handsVars, branchVars, simVars>>

\* The budgeted solveOptimalHand with a handMemo just allocated and a budget
\* of call.budget nodes; ret is the value returned with handMemo and
\* budget.remaining as the search leaves them.
CallSolveOptimalHandBudgeted ==
    /\ ret = <<>>
    /\ call.fn = "solveOptimalHandBudgeted"
    /\ ret' = solveOptimalHandBudgeted(call.cards, call.counts, call.dealerUpcard, call.rules,
                                       EmptyMemo, call.budget, call.options)
    /\ UNCHANGED <<call, decisionVars, dispatchVars, shoeVars, dealerVars, callsVars,
                   handsVars, branchVars, simVars>>

NextCall ==
    \/ CallSurrenderEvalResult
    \/ CallResolveHand
    \/ CallHandValue
    \/ CallSolveOptimalHand
    \/ CallCompareHandToDealer
    \/ CallNewSearchBudget
    \/ CallEvalSplitAction
    \/ CallSolveOptimalHandBudgeted

SpecCall == InitCall /\ [][NextCall]_vars

----------------------------------------------------------------------------
(* Specification of a sequence of calls of calculateDecision in one        *)
(* process, as the worker makes them: each call allocates its baseCounts   *)
(* array and its handMemo Map, mutates them, and leaves them on the heap   *)
(* when it returns.                                                        *)

MaxCalls == 3

CallsLefts == { left \in LeftShoes : left["4"] = 1 /\ left["A"] + left["7"] + left["K"] = 1 }

CallsInputs ==
    { MakeInput(pc, "6", left, <<>>, DefaultRules) :
        pc \in { <<"5", "6">>, <<"8", "8">>, <<"8">> }, left \in CallsLefts }

\* calculateDecision stops at one of its first three gates, before it
\* allocates anything.
StopsAtGate(in) ==
    \/ in.dealerUpcard = "null"
    \/ Len(in.playerCards) < 2
    \/ handValue(in.playerCards).total > 21

\* The state the loop over the observed cards of a call leaves.
RemovedBy(in) ==
    RemoveObserved(NewBaseCounts(normalizeRules(in.rules).decks),
                   in.playerCards \o <<in.dealerUpcard>> \o in.tableSeenCards)

\* The baseCounts array on the heap after a call on in.
BaseCountsAfter(in) == IF StopsAtGate(in) THEN baseCountsHeap ELSE RemovedBy(in).counts

\* The handMemo Map after the HIT loop of a call that removed its observed
\* cards down to counts.
HandMemoOf(in, rules, counts) ==
    HitLoop(in.playerCards, counts,
            computeDealerDistribution("exact", in.dealerUpcard, counts, rules.dealerHitsSoft17),
            rules, NewHandMemo, countTotalCards(counts), AvailableRanks(counts),
            Len(AvailableRanks(counts))).memo

\* The handMemo Map on the heap after a call on in.
HandMemoAfter(in) ==
    IF StopsAtGate(in) THEN handMemoHeap
    ELSE IF ~RemovedBy(in).ok THEN handMemoHeap
    ELSE HandMemoOf(in, normalizeRules(in.rules), RemovedBy(in).counts)

InitCalls ==
    /\ calls = <<>>
    /\ baseCountsHeap = <<>>
    /\ handMemoHeap = <<>>
    /\ DecisionIdle /\ DispatchIdle /\ ShoeIdle /\ DealerIdle /\ CallIdle /\ HandsIdle /\ BranchIdle /\ SimIdle

CalculateDecision ==
    /\ Len(calls) < MaxCalls
    /\ \E in \in CallsInputs :
          /\ calls' = Append(calls, [input |-> in, result |-> calculateDecision(in)])
          /\ baseCountsHeap' = BaseCountsAfter(in)
          /\ handMemoHeap' = HandMemoAfter(in)
    /\ UNCHANGED <<decisionVars, dispatchVars, shoeVars, dealerVars, callVars, handsVars, branchVars, simVars>>

NextCalls == CalculateDecision

SpecCalls == InitCalls /\ [][NextCalls]_vars

----------------------------------------------------------------------------
(* The hands reducer of App.tsx (handsReducer): the player's hands, the    *)
(* dealer's cards, the active hand and the undo / redo stacks.  Indexes    *)
(* are the source's, from 0; the element at index i of an array a is       *)
(* a[i + 1].                                                               *)

PlayerHand(cards, doubled) == [cards |-> cards, doubled |-> doubled]

INITIAL_HANDS_STATE ==
    [ playerHands |-> <<PlayerHand(<<>>, FALSE)>>, dealerCards |-> <<>>,
      activePlayerHandIndex |-> 0, history |-> <<>>, future |-> <<>> ]

clonePlayerHand(hand) == PlayerHand(hand.cards, hand.doubled)

snapshotHands(state) ==
    [ playerHands |-> [i \in DOMAIN state.playerHands |-> clonePlayerHand(state.playerHands[i])],
      dealerCards |-> state.dealerCards,
      activePlayerHandIndex |-> state.activePlayerHandIndex ]

\* { ...state, ...snapshot, history, future }
WithSnapshot(snapshot, history, future) ==
    [ playerHands |-> snapshot.playerHands, dealerCards |-> snapshot.dealerCards,
      activePlayerHandIndex |-> snapshot.activePlayerHandIndex,
      history |-> history, future |-> future ]

\* { ...state, playerHands, dealerCards, history: [...state.history,
\* snapshotHands(state)], future: [] }
Pushed(state, playerHands, dealerCards, activePlayerHandIndex) ==
    [ playerHands |-> playerHands, dealerCards |-> dealerCards,
      activePlayerHandIndex |-> activePlayerHandIndex,
      history |-> Append(state.history, snapshotHands(state)), future |-> <<>> ]

\* array.filter((_, index) => index !== at)
WithoutIndex(array, at) ==
    [i \in 1..(Len(array) - 1) |-> IF i <= at THEN array[i] ELSE array[i + 1]]

\* array.slice(0, -1)
WithoutLast(array) == SubSeq(array, 1, Len(array) - 1)

\* state.playerHands[index] is undefined
NoHandAt(state, index) == index < 0 \/ index >= Len(state.playerHands)

\* A faulty UNDO, which does not keep the state it leaves for REDO.
ReduceUndoForgetting(state) ==
    IF Len(state.history) = 0 THEN state
    ELSE WithSnapshot(state.history[Len(state.history)], WithoutLast(state.history),
                      state.future)

ReduceUndo(state) ==
    IF Len(state.history) = 0 THEN state
    ELSE WithSnapshot(state.history[Len(state.history)], WithoutLast(state.history),
                      <<snapshotHands(state)>> \o state.future)

ReduceRedo(state) ==
    IF Len(state.future) = 0 THEN state
    ELSE WithSnapshot(state.future[1], Append(state.history, snapshotHands(state)),
                      Tail(state.future))

ReduceClearAll(state) ==
    IF /\ \A i \in DOMAIN state.playerHands : Len(state.playerHands[i].cards) = 0
       /\ Len(state.dealerCards) = 0
    THEN state
    ELSE Pushed(state, <<PlayerHand(<<>>, FALSE)>>, <<>>, 0)

ReduceAddCard(state, target, rank) ==
    Pushed(state,
           IF target = "player"
           THEN [i \in DOMAIN state.playerHands |->
                    IF i - 1 = state.activePlayerHandIndex
                    THEN [state.playerHands[i] EXCEPT !.cards = Append(@, rank)]
                    ELSE state.playerHands[i]]
           ELSE state.playerHands,
           IF target = "dealer" THEN Append(state.dealerCards, rank) ELSE state.dealerCards,
           state.activePlayerHandIndex)

ReduceRemoveLast(state, target) ==
    IF target = "player"
    THEN IF NoHandAt(state, state.activePlayerHandIndex) THEN state
         ELSE IF Len(state.playerHands[state.activePlayerHandIndex + 1].cards) = 0 THEN state
         ELSE Pushed(state,
                     [i \in DOMAIN state.playerHands |->
                         IF i - 1 = state.activePlayerHandIndex
                         THEN [state.playerHands[i] EXCEPT !.cards = WithoutLast(@)]
                         ELSE state.playerHands[i]],
                     state.dealerCards, state.activePlayerHandIndex)
    ELSE IF Len(state.dealerCards) = 0 THEN state
    ELSE Pushed(state, state.playerHands, WithoutLast(state.dealerCards),
                state.activePlayerHandIndex)

\* The hand REMOVE_PLAYER_CARD_AT leaves: the card filtered out, and doubled
\* kept only while two cards remain.
HandWithoutCard(hand, cardIndex) ==
    PlayerHand(WithoutIndex(hand.cards, cardIndex),
               IF Len(hand.cards) - 1 >= 2 THEN hand.doubled ELSE FALSE)

ReduceRemovePlayerCardAt(state, handIndex, cardIndex) ==
    IF NoHandAt(state, handIndex) THEN state
    ELSE IF cardIndex < 0 \/ cardIndex >= Len(state.playerHands[handIndex + 1].cards)
    THEN state
    ELSE Pushed(state,
                [i \in DOMAIN state.playerHands |->
                    IF i - 1 # handIndex THEN state.playerHands[i]
                    ELSE HandWithoutCard(state.playerHands[i], cardIndex)],
                state.dealerCards, state.activePlayerHandIndex)

ReduceRemoveDealerCardAt(state, cardIndex) ==
    IF cardIndex < 0 \/ cardIndex >= Len(state.dealerCards) THEN state
    ELSE Pushed(state, state.playerHands, WithoutIndex(state.dealerCards, cardIndex),
                state.activePlayerHandIndex)

\* The hands after SPLIT_ACTIVE_HAND of the hand at index active.
SplitHands(playerHands, active) ==
    SubSeq(playerHands, 1, active)
    \o << PlayerHand(<<playerHands[active + 1].cards[1]>>, FALSE),
          PlayerHand(<<playerHands[active + 1].cards[2]>>, FALSE) >>
    \o SubSeq(playerHands, active + 2, Len(playerHands))

ReduceSplitActiveHand(state) ==
    IF NoHandAt(state, state.activePlayerHandIndex) THEN state
    ELSE IF Len(state.playerHands[state.activePlayerHandIndex + 1].cards) # 2 THEN state
    ELSE IF state.playerHands[state.activePlayerHandIndex + 1].cards[1]
                # state.playerHands[state.activePlayerHandIndex + 1].cards[2]
    THEN state
    ELSE Pushed(state, SplitHands(state.playerHands, state.activePlayerHandIndex),
                state.dealerCards, state.activePlayerHandIndex)

ReduceDoubleActiveHand(state) ==
    IF NoHandAt(state, state.activePlayerHandIndex) THEN state
    ELSE IF \/ Len(state.playerHands[state.activePlayerHandIndex + 1].cards) < 2
            \/ state.playerHands[state.activePlayerHandIndex + 1].doubled
    THEN state
    ELSE Pushed(state,
                [i \in DOMAIN state.playerHands |->
                    IF i - 1 = state.activePlayerHandIndex
                    THEN [state.playerHands[i] EXCEPT !.doubled = TRUE]
                    ELSE state.playerHands[i]],
                state.dealerCards, state.activePlayerHandIndex)

\* A faulty SET_ACTIVE_PLAYER_HAND, without the range check.
ReduceSetActiveUnchecked(state, index) ==
    IF index = state.activePlayerHandIndex THEN state
    ELSE [state EXCEPT !.activePlayerHandIndex = index]

ReduceSetActivePlayerHand(state, index) ==
    IF index < 0 \/ index >= Len(state.playerHands) THEN state
    ELSE IF index = state.activePlayerHandIndex THEN state
    ELSE [state EXCEPT !.activePlayerHandIndex = index]

handsReducer(state, action) ==
    CASE action.type = "UNDO" -> ReduceUndo(state)
      [] action.type = "REDO" -> ReduceRedo(state)
      [] action.type = "CLEAR_ALL" -> ReduceClearAll(state)
      [] action.type = "ADD_CARD" -> ReduceAddCard(state, action.target, action.rank)
      [] action.type = "REMOVE_LAST" -> ReduceRemoveLast(state, action.target)
      [] action.type = "REMOVE_PLAYER_CARD_AT" ->
             ReduceRemovePlayerCardAt(state, action.handIndex, action.cardIndex)
      [] action.type = "REMOVE_DEALER_CARD_AT" ->
             ReduceRemoveDealerCardAt(state, action.cardIndex)
      [] action.type = "SPLIT_ACTIVE_HAND" -> ReduceSplitActiveHand(state)
      [] action.type = "DOUBLE_ACTIVE_HAND" -> ReduceDoubleActiveHand(state)
      [] action.type = "SET_ACTIVE_PLAYER_HAND" ->
             ReduceSetActivePlayerHand(state, action.index)
      [] OTHER -> state

----------------------------------------------------------------------------
(* Specification of the reducer: any sequence of dispatched actions from   *)
(* INITIAL_HANDS_STATE.  The undo and redo stacks together hold at most    *)
(* MaxHistory snapshots: an action that would push one more is not         *)
(* dispatched.                                                             *)

MaxHistory == 4

HandsRanks == {"8", "K"}
HandsTargets == {"player", "dealer"}
HandsIndexes == (-1)..2

CanPush == Len(hands.history) + Len(hands.future) < MaxHistory

OthersIdleForHands ==
    /\ DecisionIdle /\ DispatchIdle /\ ShoeIdle /\ DealerIdle /\ CallIdle /\ CallsIdle
    /\ BranchIdle /\ SimIdle

HandsFrame ==
    UNCHANGED <<decisionVars, dispatchVars, shoeVars, dealerVars, callVars, callsVars,
                branchVars, simVars>>

Dispatch(action) == hands' = handsReducer(hands, action) /\ HandsFrame

InitHands == hands = INITIAL_HANDS_STATE /\ OthersIdleForHands

Undo == Dispatch([type |-> "UNDO"])
Redo == Dispatch([type |-> "REDO"])
ClearAll == CanPush /\ Dispatch([type |-> "CLEAR_ALL"])
AddCard ==
    /\ CanPush
    /\ \E target \in HandsTargets, rank \in HandsRanks :
          Dispatch([type |-> "ADD_CARD", target |-> target, rank |-> rank])
RemoveLast ==
    /\ CanPush
    /\ \E target \in HandsTargets : Dispatch([type |-> "REMOVE_LAST", target |-> target])
RemovePlayerCardAt ==
    /\ CanPush
    /\ \E handIndex \in HandsIndexes, cardIndex \in HandsIndexes :
          Dispatch([ type |-> "REMOVE_PLAYER_CARD_AT", handIndex |-> handIndex,
                     cardIndex |-> cardIndex ])
RemoveDealerCardAt ==
    /\ CanPush
    /\ \E cardIndex \in HandsIndexes :
          Dispatch([type |-> "REMOVE_DEALER_CARD_AT", cardIndex |-> cardIndex])
SplitActiveHand == CanPush /\ Dispatch([type |-> "SPLIT_ACTIVE_HAND"])
DoubleActiveHand == CanPush /\ Dispatch([type |-> "DOUBLE_ACTIVE_HAND"])
SetActivePlayerHand ==
    \E index \in HandsIndexes : Dispatch([type |-> "SET_ACTIVE_PLAYER_HAND", index |-> index])

NextHands ==
    \/ Undo \/ Redo \/ ClearAll \/ AddCard \/ RemoveLast \/ RemovePlayerCardAt
    \/ RemoveDealerCardAt \/ SplitActiveHand \/ DoubleActiveHand \/ SetActivePlayerHand

SpecHands == InitHands /\ [][NextHands]_vars

----------------------------------------------------------------------------
(* Specification of one branch of the dealer's play: the recursion of      *)
(* dealerDistributionFromKnownCards along one sequence of drawn ranks, and *)
(* the loop of dealerPlay.  Both test the hand they hold, stop on it or    *)
(* draw one more card from the shoe.                                       *)

MaxBranchShoe == 3

BranchUpcards == {"A", "6", "7", "K"}

\* Shoes of at most MaxBranchShoe cards with ranks A, 5, 6 and K.
BranchShoes ==
    { <<a, 0, 0, 0, b, c, 0, 0, 0, 0, 0, 0, d>> :
        a \in 0..MaxBranchShoe, b \in 0..MaxBranchShoe, c \in 0..MaxBranchShoe,
        d \in 0..MaxBranchShoe }

\* A faulty DealerStep, in which the dealer stands on every 17.
DealerStepStandsOn17(fn, dealerCards, counts, dealerHitsSoft17) ==
    IF fn = "dealerDistributionFromKnownCards" /\ Len(dealerCards) = 2
          /\ isBlackjack(dealerCards)
    THEN "blackjack"
    ELSE IF handValue(dealerCards).total > 21 THEN "bust"
    ELSE IF handValue(dealerCards).total >= 17 THEN "stand"
    ELSE IF countTotalCards(counts) <= 0 THEN "exhausted"
    ELSE "draw"

\* What fn does with the hand dealerCards: the first of its tests that
\* applies.  dealerPlay has no test for a natural, which it stands on as a
\* total of 21; with no card to draw it returns null.
DealerStep(fn, dealerCards, counts, dealerHitsSoft17) ==
    IF fn = "dealerDistributionFromKnownCards" /\ Len(dealerCards) = 2
          /\ isBlackjack(dealerCards)
    THEN "blackjack"
    ELSE IF handValue(dealerCards).total > 21 THEN "bust"
    ELSE IF \/ handValue(dealerCards).total > 17
            \/ /\ handValue(dealerCards).total = 17
               /\ (~handValue(dealerCards).soft \/ ~dealerHitsSoft17)
    THEN "stand"
    ELSE IF countTotalCards(counts) <= 0 THEN "exhausted"
    ELSE "draw"

BranchFrame ==
    UNCHANGED <<decisionVars, dispatchVars, shoeVars, dealerVars, callVars, callsVars,
                handsVars, simVars>>

InitBranch ==
    /\ \E fn \in {"dealerDistributionFromKnownCards", "dealerPlay"},
          up \in BranchUpcards, cs \in BranchShoes, h17 \in BOOLEAN :
           /\ countTotalCards(cs) <= MaxBranchShoe
           /\ dealerBranch = [ fn |-> fn, dealerCards |-> <<up>>, counts |-> cs,
                               dealerHitsSoft17 |-> h17, last |-> <<>>, done |-> FALSE,
                               dist |-> <<>> ]
    /\ DecisionIdle /\ DispatchIdle /\ ShoeIdle /\ DealerIdle /\ CallIdle /\ CallsIdle
    /\ HandsIdle /\ SimIdle

\* The step fn takes on the hand of the branch.
BranchStep ==
    DealerStep(dealerBranch.fn, dealerBranch.dealerCards, dealerBranch.counts,
               dealerBranch.dealerHitsSoft17)

\* The hand and the shoe a step was taken on, and the step.
BranchLast ==
    [ dealerCards |-> dealerBranch.dealerCards, counts |-> dealerBranch.counts,
      step |-> BranchStep ]

\* One more card: a turn of the for-loop over the ranks left, or the card
\* drawRandomCard takes from the shoe.
DealerDraws ==
    /\ ~dealerBranch.done
    /\ BranchStep = "draw"
    /\ \E ri \in RankIdx :
          /\ dealerBranch.counts[ri] > 0
          /\ dealerBranch' =
                [dealerBranch EXCEPT !.dealerCards = Append(@, RANKS[ri]),
                                     !.counts = [@ EXCEPT ![ri] = @ - 1],
                                     !.last = BranchLast]
    /\ BranchFrame

\* The branch ends: the enumeration returns the distribution of the hand,
\* dealerPlay returns.
DealerFinishes ==
    /\ ~dealerBranch.done
    /\ BranchStep # "draw"
    /\ dealerBranch' =
          [dealerBranch EXCEPT
              !.done = TRUE,
              !.last = BranchLast,
              !.dist = IF dealerBranch.fn = "dealerDistributionFromKnownCards"
                       THEN dealerDistributionFromKnownCards(
                                "exact", dealerBranch.dealerCards, dealerBranch.counts,
                                dealerBranch.dealerHitsSoft17)
                       ELSE <<>>]
    /\ BranchFrame

NextBranch == DealerDraws \/ DealerFinishes

SpecBranch == InitBranch /\ [][NextBranch]_vars

----------------------------------------------------------------------------
(* Specification of the trial loop of simulateSplitAction.  What a trial   *)
(* draws is random: an attempt either fails (a draw finds the shoe empty   *)
(* and the loop continues) or completes with some profit.  The runs are    *)
(* those of three kinds of shoe: "exhausted", on which every attempt       *)
(* fails; "steady", with profit 0 but for at most MaxSwings trials that    *)
(* win or lose both doubled hands' worth of 2; and "volatile", with        *)
(* profits of 2 and -2 in turn.  On the last two at most MaxFailed         *)
(* attempts fail.                                                          *)

SPLIT_TRIALS_MIN == 80
SPLIT_TRIALS_MAX == 500
SPLIT_BATCH_SIZE == 20
SPLIT_EV_CI_TARGET == <<3, 100>>

MaxSwings == 2
MaxFailed == 2

\* input.trials: absent, or a number of trials.
TrialHints == {Undefined, Opt(0), Opt(795), Opt(1000), Opt(1204), Opt(1205), Opt(10000)}

\* Math.round(requestedTrials * 0.1) for a whole requestedTrials >= 0: the
\* product is at least k + 1/2 in binary64 when requestedTrials is 10 k + 5.
ScaledTrials(requestedTrials) == (requestedTrials + 5) \div 10

\* const trials = Math.max(SPLIT_TRIALS_MIN, Math.min(SPLIT_TRIALS_MAX, scaledTrials))
TrialsFor(hint) ==
    MaxInt(SPLIT_TRIALS_MIN,
           MinInt(SPLIT_TRIALS_MAX, ScaledTrials(IF hint = Undefined THEN 3000 ELSE hint[1])))

\* a + b over the least common denominator, and a <= b for a limit b > 0:
\* the same numbers as QAdd and NumGe give, with smaller intermediate
\* products.
QAddLcm(a, b) ==
    Q(a[1] * (b[2] \div GCD(a[2], b[2])) + b[1] * (a[2] \div GCD(a[2], b[2])),
      (a[2] \div GCD(a[2], b[2])) * b[2])

QLeLimit(a, b) == a[1] <= (b[1] * a[2]) \div b[2]

\* splitEvCiHalfWidth(sampleVariance, sampleCount) <= SPLIT_EV_CI_TARGET:
\* 1.96 * sqrt(v / n) <= t exactly when v / n <= (t / 1.96)^2.
CiWithinTarget(sampleVariance, sampleCount) ==
    /\ sampleCount > 1
    /\ QLeLimit(QDiv(sampleVariance, QInt(sampleCount)),
                QMul(QDiv(SPLIT_EV_CI_TARGET, <<196, 100>>),
                     QDiv(SPLIT_EV_CI_TARGET, <<196, 100>>)))

\* A faulty shouldCheckCi, which looks at the interval after every batch.
shouldCheckCiEveryBatch(completedTrials) == completedTrials % SPLIT_BATCH_SIZE = 0

shouldCheckCi(completedTrials) ==
    completedTrials >= SPLIT_TRIALS_MIN /\ completedTrials % SPLIT_BATCH_SIZE = 0

\* meanProfit after a trial with the given profit is the nth completed.
MeanAfter(meanProfit, profit, n) ==
    QAdd(meanProfit, QDiv(QAdd(QInt(profit), QNeg(meanProfit)), QInt(n)))

\* m2 += delta * delta2, newMean being meanProfit after the trial.
M2After(m2, meanProfit, profit, newMean) ==
    QAddLcm(m2, QMul(QAdd(QInt(profit), QNeg(meanProfit)),
                     QAdd(QInt(profit), QNeg(newMean))))

\* The break of the loop, on the locals as the trial has left them.
BreaksLoop(completedTrials, m2) ==
    /\ shouldCheckCi(completedTrials)
    /\ CiWithinTarget(IF completedTrials > 1 THEN QDiv(m2, QInt(completedTrials - 1))
                      ELSE Zero,
                      completedTrials)

\* The locals after a completed trial, next being meanProfit after it.
Completed(profit, swing, next) ==
    [sim EXCEPT !.completedTrials = @ + 1,
                !.wins = IF profit > 0 THEN @ + 1 ELSE @,
                !.meanProfit = next,
                !.m2 = M2After(@, sim.meanProfit, profit, next),
                !.swings = @ + swing,
                !.i = IF BreaksLoop(sim.completedTrials + 1,
                                    M2After(sim.m2, sim.meanProfit, profit, next))
                      THEN @ ELSE @ + 1,
                !.broke = BreaksLoop(sim.completedTrials + 1,
                                     M2After(sim.m2, sim.meanProfit, profit, next))]

SimFrame ==
    UNCHANGED <<decisionVars, dispatchVars, shoeVars, dealerVars, callVars, callsVars,
                handsVars, branchVars>>

InitSim ==
    /\ \E hint \in TrialHints, kind \in {"exhausted", "steady", "volatile"} :
           sim = [ hint |-> hint, kind |-> kind, trials |-> TrialsFor(hint), i |-> 0,
                   completedTrials |-> 0, wins |-> 0, meanProfit |-> Zero, m2 |-> Zero,
                   swings |-> 0, broke |-> FALSE, result |-> <<>> ]
    /\ DecisionIdle /\ DispatchIdle /\ ShoeIdle /\ DealerIdle /\ CallIdle /\ CallsIdle
    /\ HandsIdle /\ BranchIdle

\* The loop is at its test with another trial to make.
InLoop == sim.result = <<>> /\ ~sim.broke /\ sim.i < sim.trials

\* An attempt that ends in continue: a draw, a hand or the dealer's play
\* found the shoe empty.
TrialFails ==
    /\ InLoop
    /\ \/ sim.kind = "exhausted"
       \/ sim.kind # "exhausted" /\ sim.i - sim.completedTrials < MaxFailed
    /\ sim' = [sim EXCEPT !.i = @ + 1]
    /\ SimFrame

\* An attempt that completes with a profit.
TrialCompletes ==
    /\ InLoop
    /\ \E profit \in {-2, 0, 2} :
          /\ \/ sim.kind = "steady" /\ profit = 0
             \/ sim.kind = "steady" /\ profit # 0 /\ sim.swings < MaxSwings
             \/ /\ sim.kind = "volatile"
                /\ profit = IF sim.completedTrials % 2 = 0 THEN 2 ELSE -2
          /\ sim' = Completed(profit, IF sim.kind = "steady" /\ profit # 0 THEN 1 ELSE 0,
                              MeanAfter(sim.meanProfit, profit, sim.completedTrials + 1))
    /\ SimFrame

\* The loop is over, by its test or by break: the function returns.
SimReturns ==
    /\ sim.result = <<>>
    /\ sim.broke \/ sim.i >= sim.trials
    /\ sim' = [sim EXCEPT !.result =
                  [ completedTrials |-> sim.completedTrials,
                    meanProfit |-> IF sim.completedTrials > 0 THEN sim.meanProfit ELSE NegInf,
                    winRate |-> IF sim.completedTrials > 0
                                THEN QDivInt(sim.wins, sim.completedTrials) ELSE Zero ]]
    /\ SimFrame

NextSim == TrialFails \/ TrialCompletes \/ SimReturns

\* The loop is sequential code: a step that can be taken is taken.
SpecSim == InitSim /\ [][NextSim]_vars /\ WF_vars(NextSim)

----------------------------------------------------------------------------
(* Properties.                                                             *)

\* The cards calculateDecision removes from the shoe, in its order.
Observed(in) == in.playerCards \o <<in.dealerUpcard>> \o in.tableSeenCards

\* Some rank is observed more often than the shoe holds it.
Overdrawn(in) ==
    \E r \in RankSet : CountOf(Observed(in), r) > 4 * normalizeRules(in.rules).decks

\* The message of the first gate that fails on in, "undefined" if none does.
FirstFailingGate(in) ==
    IF in.dealerUpcard = "null" THEN MsgNoUpcard
    ELSE IF Len(in.playerCards) < 2 THEN MsgTwoCards
    ELSE IF handValue(in.playerCards).total > 21 THEN MsgBust
    ELSE IF Overdrawn(in) THEN MsgExceed
    ELSE "undefined"

Returned == phase = "returned"
ReturnedValid == phase = "returned" /\ result.valid

\* The action-set order and the position of an action in it.
ActionOrder == <<"STAND", "HIT", "DOUBLE", "SPLIT", "SURRENDER">>
ActionPos(a) == CHOOSE i \in 1..Len(ActionOrder) : ActionOrder[i] = a

\* EV - 0.10 * lossProb of action a, from the maps a result reports.
ReportedScore(res, a) ==
    NumSub(res.evByAction[a], NumMul(<<1, 10>>, res.lossRateByAction[a]))

\* C1: in every interleaving of input changes and worker responses, the
\* displayed decision and the pending flag change only when a new request
\* is issued or when the response delivered belongs to the request issued
\* last, which is then displayed and clears the flag; the delivery of a
\* superseded request's response changes neither.
C1_OnlyLatestResponseApplied ==
    [][ (decision' # decision \/ isDecisionPending' # isDecisionPending)
          => \/ latestDecisionRequestId' = latestDecisionRequestId + 1
             \/ /\ reactions # <<>>
                /\ reactions' = Tail(reactions)
                /\ Head(reactions).requestId = latestDecisionRequestId
                /\ decision' = Head(reactions).result
                /\ isDecisionPending' = FALSE ]_vars

\* A superseded response was delivered and discarded, and the latest one
\* was delivered and is displayed.
C1_Witness ==
    /\ \E i \in DOMAIN delivered :
           ~delivered[i].applied /\ delivered[i].requestId < latestDecisionRequestId
    /\ \E j \in DOMAIN delivered :
           delivered[j].applied /\ delivered[j].requestId = latestDecisionRequestId
    /\ ~isDecisionPending
    /\ decision = calculateDecision(decisionInput)

\* C2: calculateDecision returns valid=false with the message of the first
\* gate that fails, the gates being in order: no dealer upcard, fewer than
\* two player cards, player total above 21, an observed card whose rank has
\* no copy left in the shoe; it returns valid=true when no gate fails.
C2_FirstFailingGateDecides ==
    Returned =>
        /\ result.valid = (FirstFailingGate(input) = "undefined")
        /\ result.message = FirstFailingGate(input)

\* A bust hand with an overdrawn shoe is reported as bust.
C2_Witness ==
    /\ Returned
    /\ input.dealerUpcard # "null"
    /\ handValue(input.playerCards).total > 21
    /\ Overdrawn(input)
    /\ ~result.valid
    /\ result.message = MsgBust

InvalidMessages == {MsgNoUpcard, MsgTwoCards, MsgBust, MsgExceed}

\* What every invalid result holds besides decksRemaining.
InvalidResultZeroed ==
    /\ result.message \in InvalidMessages
    /\ result.runningCount = 0
    /\ result.trueCount = Zero
    /\ result.evByAction = <<>>
    /\ result.winRateByAction = <<>>
    /\ result.lossRateByAction = <<>>
    /\ result.recommendedAction = "undefined"
    /\ result.safeRecommendedAction = "undefined"

\* C3 as stated: every invalid result carries a message and has
\* runningCount = 0, trueCount = 0 and decksRemaining = 0, with empty
\* per-action maps and no recommended action.
C3_InvalidResultAllZero ==
    (Returned /\ ~result.valid) => (InvalidResultZeroed /\ result.decksRemaining = Zero)

\* C3 amended: every invalid result carries a message and has
\* runningCount = 0 and trueCount = 0, empty per-action maps and no
\* recommended action, and its decksRemaining is the normalized number of
\* decks of the rules.
C3_InvalidResultDecksOfRules ==
    (Returned /\ ~result.valid) =>
        /\ InvalidResultZeroed
        /\ result.decksRemaining = QInt(normalizeRules(input.rules).decks)

\* An invalid result for rules with 5/2 decks reports 2 decks remaining.
C3_Witness ==
    /\ Returned
    /\ ~result.valid
    /\ input.rules.decks = <<5, 2>>
    /\ result.decksRemaining = QInt(2)

\* C4: on every valid result recommendedAction is an action of the action
\* set whose EV is the maximum over the set, and among several actions of
\* that EV it is the first in the order STAND, HIT, DOUBLE, SPLIT, SURRENDER.
C4_RecommendedIsFirstArgmax ==
    ReturnedValid =>
        /\ result.recommendedAction \in DOMAIN result.evByAction
        /\ \A a \in DOMAIN result.evByAction :
               /\ NumGe(result.evByAction[result.recommendedAction], result.evByAction[a])
               /\ (a # result.recommendedAction
                   /\ result.evByAction[a] = result.evByAction[result.recommendedAction])
                  => ActionPos(result.recommendedAction) < ActionPos(a)

\* A valid result where a later action has the same EV as the recommended one.
C4_Witness ==
    /\ ReturnedValid
    /\ \E a \in DOMAIN result.evByAction :
           /\ a # result.recommendedAction
           /\ result.evByAction[a] = result.evByAction[result.recommendedAction]
           /\ ~IsNegInf(result.evByAction[a])

\* C5: on every valid result neither recommendedAction nor
\* safeRecommendedAction has a reported EV of -Infinity, unless every action
\* of the set has, and then both are STAND.
C5_NeverUnavailableAction ==
    ReturnedValid =>
        IF \A a \in DOMAIN result.evByAction : IsNegInf(result.evByAction[a])
        THEN result.recommendedAction = "STAND" /\ result.safeRecommendedAction = "STAND"
        ELSE /\ ~IsNegInf(result.evByAction[result.recommendedAction])
             /\ ~IsNegInf(result.evByAction[result.safeRecommendedAction])

\* A valid result with an unavailable action (DOUBLE on three cards) which
\* is neither recommended nor safe-recommended.
C5_Witness ==
    /\ ReturnedValid
    /\ Len(input.playerCards) = 3
    /\ IsNegInf(result.evByAction["DOUBLE"])
    /\ ~IsNegInf(result.evByAction[result.recommendedAction])
    /\ ~IsNegInf(result.evByAction[result.safeRecommendedAction])

\* C6: on every valid result safeRecommendedAction is an action of the
\* action set that maximizes EV - 0.10 * lossProb over the set, with the EV
\* and lossProb the result reports in evByAction and lossRateByAction.
C6_SafeMaximizesRiskAdjustedScore ==
    ReturnedValid =>
        /\ result.safeRecommendedAction \in DOMAIN result.evByAction
        /\ DOMAIN result.lossRateByAction = DOMAIN result.evByAction
        /\ \A a \in DOMAIN result.evByAction :
               NumGe(ReportedScore(result, result.safeRecommendedAction),
                     ReportedScore(result, a))

\* A valid result where the risk adjustment changes the choice: the safe
\* action is not the recommended one, and its score is the higher.
C6_Witness ==
    /\ ReturnedValid
    /\ result.safeRecommendedAction # result.recommendedAction
    /\ NumGt(ReportedScore(result, result.safeRecommendedAction),
             ReportedScore(result, result.recommendedAction))

\* The seven probabilities of a dealer distribution.
DistValues(d) ==
    <<d.blackjack, d.bust, d.totals[17], d.totals[18], d.totals[19], d.totals[20],
      d.totals[21]>>

\* Every probability of d is a double in [0, 1] (a double of this model is
\* never negative).
DistInUnit(d) == \A i \in 1..7 : DLe(DistValues(d)[i], DOne)

\* The least exponent of the non-zero doubles of vs.
DMinExp(vs) ==
    LET es == {vs[i][2] : i \in {j \in 1..Len(vs) : vs[j] # DZero}}
    IN  CHOOSE e \in es : \A f \in es : e <= f

\* The natural n with n * 2^emin the exact sum of the doubles vs[i..].
RECURSIVE DExactSum(_, _, _)
DExactSum(vs, i, emin) ==
    IF i > Len(vs) THEN BZero
    ELSE BAdd(IF vs[i] = DZero THEN BZero ELSE BShl(vs[i][1], vs[i][2] - emin),
              DExactSum(vs, i + 1, emin))

\* The exact sum of the doubles vs is 1, and it is within 2^-tol of 1.
DSumIsOne(vs, emin) == DExactSum(vs, 1, emin) = BShl(BInt(1), -emin)

DSumNearOne(vs, emin, tol) ==
    /\ BLe(DExactSum(vs, 1, emin),
           BAdd(BShl(BInt(1), -emin), BShl(BInt(1), -emin - tol)))
    /\ BLe(BShl(BInt(1), -emin),
           BAdd(DExactSum(vs, 1, emin), BShl(BInt(1), -emin - tol)))

\* The binary64 sum of the doubles vs[1..k], added in order from 0.
RECURSIVE DFloatSum(_, _)
DFloatSum(vs, k) == IF k = 0 THEN DZero ELSE DAdd(DFloatSum(vs, k - 1), vs[k])

\* C7 as stated: for every upcard, shoe (the exhausted one too) and soft-17
\* rule, the probabilities of the computed dealer distribution are each in
\* [0,1] and sum to exactly 1, be the sum taken exactly or in binary64 in
\* the order blackjack, bust, 17, ..., 21.
C7_DistributionSumsToExactlyOne ==
    distribution # <<>> =>
        /\ DistInUnit(distribution)
        /\ \/ DSumIsOne(DistValues(distribution), DMinExp(DistValues(distribution)))
           \/ DFloatSum(DistValues(distribution), 7) = DOne

\* C7 amended: the probabilities of the computed dealer distribution are
\* each in [0,1] and their sum is within 1e-9 of 1 (2^-30 < 1e-9 is the
\* tolerance checked).
C7_DistributionSumsToOneWithinTolerance ==
    distribution # <<>> =>
        /\ DistInUnit(distribution)
        /\ DSumNearOne(DistValues(distribution), DMinExp(DistValues(distribution)), 30)

\* A computed distribution of a shoe with cards left whose probabilities
\* sum to 1 neither exactly nor in binary64, and do within the tolerance.
C7_Witness ==
    /\ distribution # <<>>
    /\ countTotalCards(dealerIn.counts) > 0
    /\ DistInUnit(distribution)
    /\ ~DSumIsOne(DistValues(distribution), DMinExp(DistValues(distribution)))
    /\ DFloatSum(DistValues(distribution), 7) # DOne
    /\ DSumNearOne(DistValues(distribution), DMinExp(DistValues(distribution)), 30)

\* C8: from a shoe of 4 x decks cards per rank, after any sequence of
\* removeCard calls, random draws and clone-and-decrement branch steps, every
\* rank count is at least 0 and the counts total 52 x decks minus the number
\* of cards successfully removed.
C8_ShoeCountsConserved ==
    shoeCounts # <<>> =>
        /\ \A i \in 1..Len(shoeCounts) : shoeCounts[i] >= 0
        /\ countTotalCards(shoeCounts) = 52 * shoeDecks - cardsRemoved

\* A card was drawn at random from a shoe that earlier removals had left
\* with an exhausted rank.
C8_Witness ==
    /\ lastOp # <<>>
    /\ lastOp.op = "drawRandomCard"
    /\ lastOp.ok
    /\ cardsRemoved > 50
    /\ \E i \in 1..Len(shoeCounts) : shoeCounts[i] = 0

\* C9: removeCard on a rank whose count is 0 returns false and leaves every
\* count unchanged; on a rank whose count is above 0 it returns true, takes
\* one off that rank's count and leaves the other counts unchanged.
C9_RemoveCardChecksCount ==
    [][ (shoeOps' = shoeOps + 1 /\ lastOp'.op = "removeCard") =>
          IF shoeCounts[RANK_TO_INDEX(lastOp'.rank)] = 0
          THEN ~lastOp'.ok /\ shoeCounts' = shoeCounts
          ELSE /\ lastOp'.ok
               /\ shoeCounts[RANK_TO_INDEX(lastOp'.rank)] > 0
               /\ \A i \in 1..Len(shoeCounts) :
                      shoeCounts'[i] = IF i = RANK_TO_INDEX(lastOp'.rank)
                                       THEN shoeCounts[i] - 1 ELSE shoeCounts[i]
               /\ Len(shoeCounts') = Len(shoeCounts) ]_vars

\* removeCard has failed on a rank that is used up while other ranks are not.
C9_Witness ==
    /\ lastOp # <<>>
    /\ lastOp.op = "removeCard"
    /\ ~lastOp.ok
    /\ shoeCounts[RANK_TO_INDEX(lastOp.rank)] = 0
    /\ countTotalCards(shoeCounts) > 0

Called(fn) == call # <<>> /\ call.fn = fn /\ ret # <<>>

\* C11: for every dealer distribution the surrender evaluation is
\* ev = -0.5 - 0.5 x P(dealer blackjack), winProb = 0 and
\* lossProb = P(dealer blackjack); so ev lies in [-1, -0.5], and is -0.5
\* when P(dealer blackjack) = 0 and -1 when it is 1.
C11_SurrenderValue ==
    Called("surrenderEvalResult") =>
        LET bj == call.dealerDist.blackjack
        IN  /\ ret.ev[1] * 2 * bj[2] = -(bj[2] + bj[1]) * ret.ev[2]
            /\ ret.ev[2] > 0
            /\ ret.winProb = Zero
            /\ ret.lossProb = bj
            /\ NumGe(ret.ev, <<-1, 1>>) /\ NumGe(<<-1, 2>>, ret.ev)
            /\ (bj = Zero => ret.ev = <<-1, 2>>)
            /\ (bj = One => ret.ev = <<-1, 1>>)

\* Surrender against a dealer who holds a blackjack for sure costs the stake.
C11_Witness ==
    /\ Called("surrenderEvalResult")
    /\ call.dealerDist.blackjack = One
    /\ ret = EvalResult(<<-1, 1>>, Zero, One)

\* The probability the distribution gives to the dealer totals in S.
RECURSIVE TotalsMass(_, _)
TotalsMass(dealerDist, S) ==
    IF S = {} THEN Zero
    ELSE LET t == CHOOSE x \in S : TRUE
         IN  QAdd(dealerDist.totals[t], TotalsMass(dealerDist, S \ {t}))

\* The value of an ordinary (not natural) hand of the given total: the dealer
\* busting or ending lower wins the stake, a dealer blackjack or a higher
\* dealer total loses it, an equal total is a push.
OrdinaryValue(total, stake, dealerDist) ==
    LET winP  == QAdd(dealerDist.bust, TotalsMass(dealerDist, {t \in 17..21 : t < total}))
        lossP == QAdd(dealerDist.blackjack,
                      TotalsMass(dealerDist, {t \in 17..21 : t > total}))
    IN  EvalResult(QMul(QInt(stake), QAdd(winP, QNeg(lossP))), winP, lossP)

\* The hand is an ace with a ten-valued card.
AceAndTen(cards) ==
    /\ Len(cards) = 2
    /\ \/ cards[1] = "A" /\ cards[2] \in {"10", "J", "Q", "K"}
       \/ cards[2] = "A" /\ cards[1] \in {"10", "J", "Q", "K"}

\* C12: a hand of total at most 21 that is not settled as a blackjack is worth
\* stake * (P(bust) + P(dealer lower) - P(dealer blackjack) - P(dealer higher)),
\* with winProb and lossProb the two halves and equal totals contributing
\* nothing; against a dealer who always busts that is (+stake, 1, 0); a hand
\* over 21 is (-stake, 0, 1).
C12_OrdinaryHandValue ==
    Called("resolveHandAgainstDealerDistribution") =>
        LET total == handValue(call.playerCards).total
            natural == call.blackjackEligible /\ AceAndTen(call.playerCards)
        IN  /\ (total <= 21 /\ ~natural) =>
                   ret = OrdinaryValue(total, call.stake, call.dealerDist)
            /\ (total <= 21 /\ ~natural /\ call.dealerDist.bust = One) =>
                   ret = EvalResult(QInt(call.stake), One, Zero)
            /\ total > 21 => ret = EvalResult(QInt(-call.stake), Zero, One)

C12_Witness ==
    /\ Called("resolveHandAgainstDealerDistribution")
    /\ call.playerCards = <<"10", "9">> /\ call.stake = 2
    /\ call.dealerDist.totals[19] = <<1, 3>>
    /\ call.dealerDist.bust = <<1, 3>>
    /\ call.dealerDist.totals[20] = <<1, 3>>
    /\ ret = EvalResult(Zero, <<1, 3>>, <<1, 3>>)

\* C13: an eligible ace with a ten-valued card is worth
\* (1 - P(dealer blackjack)) * stake * blackjackPayout with winProb
\* 1 - P(dealer blackjack) and lossProb 0; the same two cards without the flag
\* are an ordinary 21, which loses to a dealer blackjack and wins the plain
\* stake.
C13_NaturalPayout ==
    (Called("resolveHandAgainstDealerDistribution") /\ AceAndTen(call.playerCards)) =>
        LET noBj == QAdd(One, QNeg(call.dealerDist.blackjack))
        IN  IF call.blackjackEligible
            THEN ret = EvalResult(QMul(noBj, QMul(QInt(call.stake), call.blackjackPayout)),
                                  noBj, Zero)
            ELSE /\ ret = OrdinaryValue(21, call.stake, call.dealerDist)
                 /\ ret.lossProb = call.dealerDist.blackjack
                 /\ NumGe(QInt(call.stake), ret.ev)

C13_Witness ==
    /\ Called("resolveHandAgainstDealerDistribution")
    /\ call.playerCards = <<"A", "K">> /\ call.blackjackEligible
    /\ call.stake = 1 /\ call.blackjackPayout = <<3, 2>>
    /\ call.dealerDist.blackjack = <<1, 3>>
    /\ ret = EvalResult(One, <<2, 3>>, Zero)

\* The hand's total with every ace counted as 1.
RECURSIVE HardTotal(_)
HardTotal(cards) ==
    IF cards = <<>> THEN 0
    ELSE (IF Head(cards) = "A" THEN 1
          ELSE IF Head(cards) \in {"10", "J", "Q", "K"} THEN 10
          ELSE CHOOSE n \in 2..9 : RANKS[n] = Head(cards)) + HardTotal(Tail(cards))

\* The totals the hand can make: k of its aces counted as 11, the rest as 1.
AchievableTotals(cards) ==
    { HardTotal(cards) + 10 * k : k \in 0..Cardinality({i \in DOMAIN cards : cards[i] = "A"}) }

\* The largest achievable total that is at most 21, or the all-aces-as-1
\* total when every achievable total is above 21.
BestTotal(cards) ==
    LET within == {t \in AchievableTotals(cards) : t <= 21}
    IN  IF within = {} THEN HardTotal(cards)
        ELSE CHOOSE t \in within : \A u \in within : u <= t

\* C14: handValue is the largest achievable total that is at most 21, or the
\* all-aces-as-1 total when there is none, and soft exactly when an ace is
\* still counted as 11; ace, ace, 9 is a soft 21.
C14_HandValueAceReduction ==
    Called("handValue") =>
        /\ ret.total = BestTotal(call.cards)
        /\ ret.soft = (BestTotal(call.cards) > HardTotal(call.cards))
        /\ (call.cards = <<"A", "A", "9">> => ret = [total |-> 21, soft |-> TRUE])

C14_Witness ==
    /\ Called("handValue") /\ call.cards = <<"A", "A", "9">>
    /\ ret = [total |-> 21, soft |-> TRUE]

\* The Hi-Lo count of a list of cards: the low cards (2-6) less the aces and
\* ten-valued cards.
HiLoCount(cards) ==
    Cardinality({i \in DOMAIN cards : cards[i] \in {"2", "3", "4", "5", "6"}})
        - Cardinality({i \in DOMAIN cards : cards[i] \in {"A", "10", "J", "Q", "K"}})

\* C15: a valid result reports the Hi-Lo sum of all observed cards as
\* runningCount, (52 * decks - observed cards) / 52 as decksRemaining, and
\* runningCount / decksRemaining as trueCount, 0 when no deck remains.
C15_CountsOnValidResult ==
    ReturnedValid =>
        LET observed == Observed(input)
            decks == normalizeRules(input.rules).decks
            left == 52 * decks - Len(observed)
        IN  /\ result.runningCount = HiLoCount(observed)
            /\ result.decksRemaining = Q(left, 52)
            /\ result.trueCount = IF left = 0 THEN Zero
                                  ELSE Q(52 * HiLoCount(observed), left)

C15_Witness ==
    /\ ReturnedValid
    /\ result.runningCount = 2
    /\ result.decksRemaining = <<1, 26>>
    /\ result.trueCount = <<52, 1>>

\* C16: a valid result reports a finite EV for DOUBLE exactly when the hand
\* has two cards and either doubleAnyTwo is set or the hand is a hard 9, 10 or
\* 11; otherwise DOUBLE is -infinity, the result is still valid, STAND and HIT
\* keep finite values and DOUBLE is not recommended.
C16_DoubleEligibility ==
    ReturnedValid =>
        LET cards == input.playerCards
            eligible == /\ Len(cards) = 2
                        /\ \/ normalizeRules(input.rules).doubleAnyTwo
                           \/ /\ BestTotal(cards) \in 9..11
                              /\ BestTotal(cards) = HardTotal(cards)
        IN  /\ "DOUBLE" \in DOMAIN result.evByAction
            /\ ~IsNegInf(result.evByAction["DOUBLE"]) <=> eligible
            /\ ~eligible =>
                   /\ ~IsNegInf(result.evByAction["STAND"])
                   /\ ~IsNegInf(result.evByAction["HIT"])
                   /\ result.recommendedAction # "DOUBLE"
                   /\ result.safeRecommendedAction # "DOUBLE"

C16_Witness ==
    /\ ReturnedValid
    /\ input.playerCards = <<"A", "8">>
    /\ ~normalizeRules(input.rules).doubleAnyTwo
    /\ IsNegInf(result.evByAction["DOUBLE"])
    /\ ~IsNegInf(result.evByAction["HIT"])

\* The observed cards of the returned call use up the whole shoe.
ShoeExhausted == ReturnedValid /\ result.decksRemaining = Zero

\* C17: when SPLIT is in the action set and no card is left to draw once the
\* observed cards are removed, the EV reported for SPLIT is -infinity.
C17_SplitUnavailableOnExhaustedShoe ==
    (ShoeExhausted /\ "SPLIT" \in DOMAIN result.evByAction) =>
        IsNegInf(result.evByAction["SPLIT"])

\* C18: on a valid input whose observed cards use up the whole shoe and whose
\* hand is not a blackjack, the EV reported for HIT is the EV reported for
\* STAND.
C18_HitOnExhaustedShoeIsStand ==
    (ShoeExhausted /\ ~AceAndTen(input.playerCards)) =>
        result.evByAction["HIT"] = result.evByAction["STAND"]

\* The options solveOptimalHand has on the hand of a call, in the order it
\* computes them: standing, hitting when allowed and a card can be drawn,
\* doubling when eligible and a card can be drawn.
SolveCandidates(c) ==
    LET totalCards == countTotalCards(c.counts)
        avail == AvailableRanks(c.counts)
        stand == OrdinaryValue(BestTotal(c.cards), 1, c.dealerDist)
        hit == IF c.options.allowHit /\ totalCards > 0
               THEN << HitLoop(c.cards, c.counts, c.dealerDist, c.rules, EmptyMemo,
                               totalCards, avail, Len(avail)).val >>
               ELSE << >>
        dbl == IF /\ c.options.canDouble /\ Len(c.cards) = 2 /\ totalCards > 0
                  /\ \/ c.rules.doubleAnyTwo
                     \/ BestTotal(c.cards) \in 9..11 /\ BestTotal(c.cards) = HardTotal(c.cards)
               THEN << DoubleLoop(c.cards, c.counts, c.dealerDist, c.rules,
                                  totalCards, avail, Len(avail)) >>
               ELSE << >>
    IN  <<stand>> \o hit \o dbl

\* v is the first of the candidates with the highest EV.
FirstMaxByEv(v, cand) ==
    \E i \in DOMAIN cand :
        /\ v = cand[i]
        /\ \A j \in DOMAIN cand : NumGe(cand[i].ev, cand[j].ev)
        /\ \A j \in 1..(i - 1) : NumGt(cand[i].ev, cand[j].ev)

\* C20: on a hand below 21 solveOptimalHand returns the maximum by EV of its
\* stand, hit and double values, the earlier one on equal EVs, so never less
\* than the stand EV.
C20_SolveTakesFirstMaximum ==
    (Called("solveOptimalHand") /\ BestTotal(call.cards) < 21) =>
        /\ FirstMaxByEv(ret, SolveCandidates(call))
        /\ NumGe(ret.ev, SolveCandidates(call)[1].ev)

C20_Witness ==
    /\ Called("solveOptimalHand") /\ BestTotal(call.cards) < 21
    /\ Len(SolveCandidates(call)) = 3
    /\ ret = SolveCandidates(call)[1]
    /\ ret # SolveCandidates(call)[2]
    /\ ret.ev = SolveCandidates(call)[2].ev

HandsFields(state) ==
    << state.playerHands, state.dealerCards, state.activePlayerHandIndex,
       state.history, state.future >>

\* C28: in every reachable state of the reducer with a non-empty history,
\* UNDO followed by REDO gives back the same playerHands, dealerCards,
\* activePlayerHandIndex, history and future; UNDO on an empty history and
\* REDO on an empty future return the state unchanged.
C28_UndoThenRedoRestores ==
    hands # <<>> =>
        /\ Len(hands.history) > 0 =>
               HandsFields(handsReducer(handsReducer(hands, [type |-> "UNDO"]),
                                        [type |-> "REDO"])) = HandsFields(hands)
        /\ Len(hands.history) = 0 => handsReducer(hands, [type |-> "UNDO"]) = hands
        /\ Len(hands.future) = 0 => handsReducer(hands, [type |-> "REDO"]) = hands

C28_Witness ==
    /\ hands # <<>>
    /\ Len(hands.history) > 0 /\ Len(hands.future) > 0
    /\ Len(hands.playerHands) = 2
    /\ handsReducer(hands, [type |-> "UNDO"]) # hands
    /\ hands.activePlayerHandIndex # hands.history[Len(hands.history)].activePlayerHandIndex

\* C29: in every reachable state of the reducer playerHands is non-empty and
\* activePlayerHandIndex is an index into it.
C29_ActiveHandIndexValid ==
    hands # <<>> =>
        /\ Len(hands.playerHands) >= 1
        /\ hands.activePlayerHandIndex \in 0..(Len(hands.playerHands) - 1)

C29_Witness ==
    /\ hands # <<>>
    /\ Len(hands.playerHands) = 1 /\ hands.activePlayerHandIndex = 0
    /\ Len(hands.future) > 0
    /\ Len(hands.future[1].playerHands) = 2 /\ hands.future[1].activePlayerHandIndex = 1

\* C30: in every reachable state of the reducer a player hand whose doubled
\* flag is set holds at least two cards.
C30_DoubledHandHasTwoCards ==
    hands # <<>> =>
        \A i \in DOMAIN hands.playerHands :
            hands.playerHands[i].doubled => Len(hands.playerHands[i].cards) >= 2

\* The distribution with probability 1 on the outcome class of a completed
\* dealer hand: blackjack, bust, or its total.
OutcomeClassDist(dealerCards) ==
    LET total == handValue(dealerCards).total
    IN  [ blackjack |-> IF isBlackjack(dealerCards) THEN One ELSE Zero,
          bust      |-> IF total > 21 THEN One ELSE Zero,
          totals    |-> [t \in 17..21 |->
                            IF ~isBlackjack(dealerCards) /\ total = t THEN One ELSE Zero] ]

C22_LowTotalBudgetIsHigher ==
    (Called("NewSearchBudget") /\ handValue(call.playerCards).total <= 11) =>
        \A higher \in BudgetHands :
            handValue(higher).total > 11 =>
                ret.remaining > NewSearchBudget(higher).remaining

\* The dealer's play from cards when every card left in the shoe has the same
\* rank, n of them: the cards the dealer ends with, and whether the shoe ran
\* out before the dealer reached a hand to stop on.
RECURSIVE ForcedPlay(_, _, _, _)
ForcedPlay(cards, rank, n, h17) ==
    IF \/ isBlackjack(cards)
       \/ handValue(cards).total > 17
       \/ handValue(cards).total = 17 /\ (~handValue(cards).soft \/ ~h17)
    THEN [cards |-> cards, exhausted |-> FALSE]
    ELSE IF n = 0 THEN [cards |-> cards, exhausted |-> TRUE]
    ELSE ForcedPlay(Append(cards, rank), rank, n - 1, h17)

\* The shoe of the call holds cards of one rank at most.
OneRankShoe == Cardinality({i \in RankIdx : dealerIn.counts[i] > 0}) <= 1

\* The dealer's forced play on the input of the call, for a shoe of one rank.
DealerForced ==
    LET held == {i \in RankIdx : dealerIn.counts[i] > 0}
        ri == IF held = {} THEN 1 ELSE CHOOSE i \in held : TRUE
    IN  ForcedPlay(<<dealerIn.dealerUpcard>>, RANKS[ri], dealerIn.counts[ri],
                   dealerIn.dealerHitsSoft17)

\* The call is over and its shoe ran out before the dealer could stop.
ExhaustedBeforeStanding ==
    distribution # <<>> /\ OneRankShoe /\ DealerForced.exhausted

\* The distribution has probability 1 on total t and none elsewhere.
AllOnTotal(t) ==
    /\ distribution.blackjack = DZero
    /\ distribution.bust = DZero
    /\ \A u \in 17..21 : distribution.totals[u] = IF u = t THEN DOne ELSE DZero

\* C25 as claimed: when the shoe runs out before the dealer stands, the
\* distribution has probability 1 on the total of the cards the dealer
\* holds, and none on any other total.
C25_ExhaustedShoeKeepsCurrentTotal ==
    ExhaustedBeforeStanding => AllOnTotal(handValue(DealerForced.cards).total)

\* C25 (amended): when the shoe runs out before the dealer stands, the
\* distribution has probability 1 on total 17, whatever lower total the
\* dealer holds.
C25_ExhaustedShoeStandsOn17 ==
    ExhaustedBeforeStanding =>
        /\ handValue(DealerForced.cards).total <= 17
        /\ AllOnTotal(17)

C25_Witness ==
    /\ ExhaustedBeforeStanding
    /\ Len(DealerForced.cards) >= 3
    /\ handValue(DealerForced.cards).total < 17

\* The probabilities of the seven outcome classes of a dealer distribution:
\* blackjack, bust and the totals from 17 to 21.
ClassProbs(dist) ==
    << dist.blackjack, dist.bust, dist.totals[17], dist.totals[18], dist.totals[19],
       dist.totals[20], dist.totals[21] >>

\* C26: on a hand with a card left to draw the dealer draws if and only if the
\* hand is not a two-card ace and ten and its total is below 17, or it is a
\* soft 17 and dealerHitsSoft17 is set; the enumeration classes a two-card
\* ace and ten as blackjack and not as 21, a total above 21 as bust, and gives
\* each finished branch probability 1 in one class and 0 in all others.
C26_DealerDrawRule ==
    (dealerBranch # <<>> /\ dealerBranch.last # <<>>) =>
        LET from == dealerBranch.last.dealerCards
            value == handValue(from)
        IN  /\ countTotalCards(dealerBranch.last.counts) > 0 =>
                   ( dealerBranch.last.step = "draw"
                     <=> \/ ~AceAndTen(from) /\ value.total < 17
                         \/ /\ value.total = 17 /\ value.soft
                            /\ dealerBranch.dealerHitsSoft17 )
            /\ (dealerBranch.done /\ dealerBranch.fn = "dealerDistributionFromKnownCards") =>
                   /\ AceAndTen(from) =>
                          /\ dealerBranch.dist.blackjack = One
                          /\ dealerBranch.dist.totals[21] = Zero
                   /\ value.total > 21 => dealerBranch.dist.bust = One
                   /\ \E class \in 1..7 :
                          \A other \in 1..7 :
                              ClassProbs(dealerBranch.dist)[other]
                                  = IF other = class THEN One ELSE Zero

C26_Witness ==
    /\ dealerBranch # <<>>
    /\ dealerBranch.done
    /\ dealerBranch.fn = "dealerDistributionFromKnownCards"
    /\ dealerBranch.dealerHitsSoft17
    /\ dealerBranch.dealerCards = <<"A", "6", "5", "K">>
    /\ dealerBranch.dist.bust = One

\* The EV of one split hand when every hand <<pairCard, r>> is settled as it
\* stands, with its two cards: the sum over the ranks avail[1..k] of the
\* probability of the draw times the stand value of the hand.
RECURSIVE TwoCardHandEv(_, _, _, _, _, _)
TwoCardHandEv(pairCard, baseCounts, dealerDist, rules, avail, k) ==
    IF k = 0 THEN Zero
    ELSE QAdd(TwoCardHandEv(pairCard, baseCounts, dealerDist, rules, avail, k - 1),
              QMul(QDivInt(baseCounts[avail[k]], countTotalCards(baseCounts)),
                   resolveHandAgainstDealerDistribution(
                       <<pairCard, RANKS[avail[k]]>>, 1, rules.blackjackPayout, FALSE,
                       dealerDist).ev))

\* C21: for split aces with hitSplitAces off every split hand scored holds
\* two cards, so the EV of the split is twice the mean stand value of the
\* two-card hands ace + drawn card.
C21_SplitAcesScoredOnTwoCards ==
    ( /\ Called("evalSplitAction")
      /\ call.pairCard = "A" /\ ~call.rules.hitSplitAces
      /\ countTotalCards(call.baseCounts) > 0 ) =>
        ret.ev = QMul(TwoCardHandEv(call.pairCard, call.baseCounts, call.dealerDist,
                                    call.rules, AvailableRanks(call.baseCounts),
                                    Len(AvailableRanks(call.baseCounts))),
                      QInt(2))

\* The stand value of the hand of a call of the budgeted solver.
BudgetStandValue ==
    EvWin(resolveHandAgainstDealerDistribution(
              call.cards, 1, call.rules.blackjackPayout, call.options.blackjackEligible,
              computeDealerDistribution("exact", call.dealerUpcard, call.counts,
                                        call.rules.dealerHitsSoft17)))

\* C23: a search leaves budget.remaining between 0 and the budget it started
\* with; the budget went down by one for every node expanded, which are the
\* hands the search added to its memo; and a search started on a spent budget
\* with a hand below 21 returns the stand value of the hand, adds nothing to
\* the memo and leaves the budget as it is.
C23_BudgetBoundsExpansion ==
    Called("solveOptimalHandBudgeted") =>
        /\ ret.remaining >= 0
        /\ ret.remaining <= call.budget
        /\ call.budget - ret.remaining = Cardinality(DOMAIN ret.memo)
        /\ (call.budget = 0 /\ handValue(call.cards).total < 21) =>
               /\ ret.val = BudgetStandValue
               /\ ret.memo = EmptyMemo
               /\ ret.remaining = 0

C23_Witness ==
    /\ Called("solveOptimalHandBudgeted")
    /\ call.budget >= 2
    /\ ret.remaining = 0
    /\ Cardinality(DOMAIN ret.memo) = call.budget
    /\ ret.val.ev # BudgetStandValue.ev
    /\ ret.val # solveOptimalHandBudgeted(call.cards, call.counts, call.dealerUpcard,
                                          call.rules, EmptyMemo, call.budget + 3,
                                          call.options).val

\* The attempts simulateSplitAction has made: the index of the loop, and the
\* attempt a break has left it on.
SimAttempts == IF sim.broke THEN sim.i + 1 ELSE sim.i

\* The cap on the attempts: round(0.1 * hint) clamped to 80..500.
SimCap ==
    LET hint == IF sim.hint = Undefined THEN 3000 ELSE sim.hint[1]
        scaled == IF hint % 10 >= 5 THEN hint \div 10 + 1 ELSE hint \div 10
    IN  IF scaled < 80 THEN 80 ELSE IF scaled > 500 THEN 500 ELSE scaled

\* The 95% half-width 1.96 * sqrt(s2 / n) of the mean of the completed trials
\* is at most 0.03, s2 being m2 / (n - 1): 38416 * m2 <= 9 * n * (n - 1), for
\* the whole numerator and denominator of m2.
SimHalfWidthWithin ==
    sim.m2[1] <= (9 * sim.completedTrials * (sim.completedTrials - 1) * sim.m2[2]) \div 38416

SimBounded ==
    sim # <<>> =>
        /\ SimAttempts <= SimCap
        /\ sim.completedTrials <= SimAttempts
        /\ (sim.result # <<>> /\ SimAttempts < SimCap) =>
               /\ sim.completedTrials >= 80
               /\ sim.completedTrials % 20 = 0
               /\ SimHalfWidthWithin
        /\ sim.result # <<>> => sim.result.completedTrials = sim.completedTrials

\* What is left of the run: two for every attempt the loop may still make,
\* one for the break and one for the return.
SimVariant ==
    2 * (sim.trials - sim.i) + (IF sim.broke THEN 0 ELSE 1)
        + (IF sim.result = <<>> THEN 1 ELSE 0)

\* C24: simulateSplitAction terminates, every step taking the run closer to
\* its end, which is never below 0; it makes at most
\* clamp(round(0.1 * hint), 80, 500) attempts, completedTrials never exceeds
\* the attempts made, and it leaves the loop before the cap only at a
\* completed-trial count of at least 80 that is a multiple of 20 and at which
\* the 95% half-width of the mean is at most 0.03.
C24_SimulationTerminatesWithinCap ==
    /\ [](SimBounded /\ (sim # <<>> => SimVariant >= 0))
    /\ [][SimVariant' < SimVariant]_sim

C24_Witness ==
    /\ sim # <<>>
    /\ sim.result # <<>>
    /\ sim.broke
    /\ sim.trials = 300
    /\ sim.completedTrials = 140
    /\ sim.swings = 1
    /\ SimAttempts = 141

====
